---------------------------- MODULE Spec2Model ----------------------------
(***************************************************************************)
(* Model of cargo-should-be-public-checker: the cross-crate item graph     *)
(* (GraphCache: resolve_crate, resolve, resolve_path, module_namespace),   *)
(* the generic bfs with its two linkers, and the report printed by main.   *)
(*                                                                         *)
(* Strings are sequences of ASCII codes, so that replace, format!, string  *)
(* equality and the lexicographic sort are computed as the program does.   *)
(* Option<T> is a sequence of length at most one.                         *)
(***************************************************************************)
EXTENDS Naturals, Sequences, FiniteSets, TLC

\* ------------------------------------------------------------------ bounds
\* Maximal nesting of calls of the mutually recursive resolver functions; a
\* deeper nesting is an unbounded recursion and ends as a stack overflow.
MaxDepth == 12
\* Number of GraphCache operations a direct caller makes in one run.
MaxCalls == 3

\* ----------------------------------------------------------------- strings
s_root == <<114, 111, 111, 116>>  \* "root"
s_Foo == <<70, 111, 111>>  \* "Foo"
s_bar == <<98, 97, 114>>  \* "bar"
s_Bar == <<66, 97, 114>>  \* "Bar"
s_inner == <<105, 110, 110, 101, 114>>  \* "inner"
s_Zed == <<90, 101, 100>>  \* "Zed"
s_other == <<111, 116, 104, 101, 114>>  \* "other"
s_Alpha == <<65, 108, 112, 104, 97>>  \* "Alpha"
s_Beta == <<66, 101, 116, 97>>  \* "Beta"
s_dep == <<100, 101, 112>>  \* "dep"
s_T == <<84>>  \* "T"
s_f == <<102>>  \* "f"
s_internal == <<105, 110, 116, 101, 114, 110, 97, 108>>  \* "internal"
s_Q == <<81>>  \* "Q"
s_Tr == <<84, 114>>  \* "Tr"
s_Hidden == <<72, 105, 100, 100, 101, 110>>  \* "Hidden"
s_PrivateBound == <<80, 114, 105, 118, 97, 116, 101, 66, 111, 117, 110, 100>>  \* "PrivateBound"
s_std == <<115, 116, 100>>  \* "std"
s_core == <<99, 111, 114, 101>>  \* "core"
s_alloc == <<97, 108, 108, 111, 99>>  \* "alloc"
s_proc_macro == <<112, 114, 111, 99, 95, 109, 97, 99, 114, 111>>  \* "proc_macro"
s_test == <<116, 101, 115, 116>>  \* "test"
s_webpki == <<119, 101, 98, 112, 107, 105>>  \* "webpki"
s_rustls_webpki == <<114, 117, 115, 116, 108, 115, 95, 119, 101, 98, 112, 107, 105>>  \* "rustls_webpki"
s___private == <<95, 95, 112, 114, 105, 118, 97, 116, 101>>  \* "__private"
s_String == <<83, 116, 114, 105, 110, 103>>  \* "String"
s_g == <<103>>  \* "g"
s_Al == <<65, 108>>  \* "Al"
s_Gone == <<71, 111, 110, 101>>  \* "Gone"
s_h == <<104>>  \* "h"
s_Priv == <<80, 114, 105, 118>>  \* "Priv"
s_x == <<120>>  \* "x"
s_my_hy_lib == <<109, 121, 45, 108, 105, 98>>  \* "my-lib"
s_my_lib == <<109, 121, 95, 108, 105, 98>>  \* "my_lib"
s_None == <<78, 111, 110, 101>>  \* "None"
s_colons == <<58, 58>>  \* "::"
s_impl_open == <<96, 60, 95, 32, 97, 115, 32>>  \* "`<_ as "
s_impl_close == <<62, 62, 96>>  \* ">>`"
s_lt == <<60>>  \* "<"
\* "Some(AngleBracketed { args: [], constraints: [] })"
s_SomeEmptyAngle == <<83, 111, 109, 101, 40, 65, 110, 103, 108, 101, 66, 114, 97, 99, 107, 101, 116, 101, 100, 32, 123, 32, 97, 114, 103, 115, 58, 32, 91, 93, 44, 32, 99, 111, 110, 115, 116, 114, 97, 105, 110, 116, 115, 58, 32, 91, 93, 32, 125, 41>>

ch_hyphen == 45
ch_underscore == 95

\* str::replace for a one-character pattern and replacement
replace(s, from, to) == [i \in 1..Len(s) |-> IF s[i] = from THEN to ELSE s[i]]

\* Ord for str (byte-wise lexicographic order), as used by Vec<String>::sort
RECURSIVE str_lt(_, _)
str_lt(a, b) ==
    IF b = <<>> THEN FALSE
    ELSE IF a = <<>> THEN TRUE
    ELSE IF Head(a) # Head(b) THEN Head(a) < Head(b)
    ELSE str_lt(Tail(a), Tail(b))

str_le(a, b) == a = b \/ str_lt(a, b)

\* ----------------------------------------------------------------- options
None == <<>>
Some(x) == <<x>>
is_some(o) == o # <<>>
unwrap(o) == o[1]

RECURSIVE ConcatAll(_)
ConcatAll(ss) == IF ss = <<>> THEN <<>> ELSE Head(ss) \o ConcatAll(Tail(ss))

Range(s) == {s[i] : i \in DOMAIN s}


\* ------------------------------------------------- rustdoc_types (the input)
\* Visibility is one of "Public", "Default", "Crate", "Restricted".
Path(name, id, args) == [name |-> name, id |-> id, args |-> args]
AngleBracketed(args, constraints) ==
    [t |-> "AngleBracketed", args |-> args, constraints |-> constraints]
Parenthesized(inputs, output) ==
    [t |-> "Parenthesized", inputs |-> inputs, output |-> output]
TraitBound(trait_, generic_params) ==
    [t |-> "TraitBound", trait_ |-> trait_, generic_params |-> generic_params]
Outlives == [t |-> "Outlives"]
BoundPredicate(type_, bounds, generic_params) ==
    [t |-> "BoundPredicate", type_ |-> type_, bounds |-> bounds,
     generic_params |-> generic_params]
LifetimePredicate == [t |-> "LifetimePredicate"]
EqPredicate(lhs, rhs) == [t |-> "EqPredicate", lhs |-> lhs, rhs |-> rhs]
Generics(params, where_predicates) ==
    [params |-> params, where_predicates |-> where_predicates]
NoGenerics == Generics(<<>>, <<>>)
FunctionSignature(inputs, output) == [inputs |-> inputs, output |-> output]

ResolvedPath(path) == [t |-> "ResolvedPath", path |-> path]
DynTrait(traits) == [t |-> "DynTrait", traits |-> traits]
FunctionPointer(sig, generic_params) ==
    [t |-> "FunctionPointer", sig |-> sig, generic_params |-> generic_params]
Tuple(types) == [t |-> "Tuple", types |-> types]
Slice(type_) == [t |-> "Slice", type_ |-> type_]
Array(type_) == [t |-> "Array", type_ |-> type_]
Pat == [t |-> "Pat"]
ImplTrait(bounds) == [t |-> "ImplTrait", bounds |-> bounds]
RawPointer(type_) == [t |-> "RawPointer", type_ |-> type_]
BorrowedRef(type_) == [t |-> "BorrowedRef", type_ |-> type_]
QualifiedPath(args, self_type, trait_) ==
    [t |-> "QualifiedPath", args |-> args, self_type |-> self_type, trait_ |-> trait_]
\* a type that names the item with the given id, without generic arguments
TypeOf(name, id) == ResolvedPath(Path(name, id, None))

Item(id, name, visibility, inner) ==
    [id |-> id, name |-> name, visibility |-> visibility, inner |-> inner]
Module(is_crate, items) == [kind |-> "Module", is_crate |-> is_crate, items |-> items]
ExternCrate(name, rename) == [kind |-> "ExternCrate", name |-> name, rename |-> rename]
Use(source, name, id, is_glob) ==
    [kind |-> "Use", source |-> source, name |-> name, id |-> id, is_glob |-> is_glob]
Union(generics, fields, impls) ==
    [kind |-> "Union", generics |-> generics, fields |-> fields, impls |-> impls]
StructUnit == [k |-> "Unit"]
StructPlain(fields) == [k |-> "Plain", fields |-> fields]
Struct(skind, generics, impls) ==
    [kind |-> "Struct", skind |-> skind, generics |-> generics, impls |-> impls]
StructField(type_) == [kind |-> "StructField", type_ |-> type_]
Enum(generics, variants, impls) ==
    [kind |-> "Enum", generics |-> generics, variants |-> variants, impls |-> impls]
Variant(vkind) == [kind |-> "Variant", vkind |-> vkind]
Function(sig, generics) == [kind |-> "Function", sig |-> sig, generics |-> generics]
Trait(items, generics, bounds) ==
    [kind |-> "Trait", items |-> items, generics |-> generics, bounds |-> bounds]
TraitAlias == [kind |-> "TraitAlias"]
Impl(trait_, for_, generics, items) ==
    [kind |-> "Impl", trait_ |-> trait_, for_ |-> for_, generics |-> generics,
     items |-> items]
TypeAlias(type_, generics) ==
    [kind |-> "TypeAlias", type_ |-> type_, generics |-> generics]
Constant(type_) == [kind |-> "Constant", type_ |-> type_]
Static(type_) == [kind |-> "Static", type_ |-> type_]
ExternType == [kind |-> "ExternType"]
Macro == [kind |-> "Macro"]
ProcMacro == [kind |-> "ProcMacro"]
Primitive == [kind |-> "Primitive"]
AssocConst(type_) == [kind |-> "AssocConst", type_ |-> type_]
AssocType(generics, bounds, type_) ==
    [kind |-> "AssocType", generics |-> generics, bounds |-> bounds, type_ |-> type_]

ItemSummary(crate_id, path) == [crate_id |-> crate_id, path |-> path]
ExternalCrate(name) == [name |-> name]
\* rustdoc_types::Crate: index and paths are maps keyed by Id, external_crates
\* a map keyed by crate id
Crate(index, paths, external_crates) ==
    [index |-> index, paths |-> paths, external_crates |-> external_crates]

\* HashMap::get
get(m, k) == IF k \in DOMAIN m THEN Some(m[k]) ELSE None

\* ------------------------------------------------------------- BfsLinker
\* What a linker call leaves in the BfsLinker queue, in order, or a panic.
LinkNone == [panic |-> FALSE, ids |-> <<>>]
LinkPanic == [panic |-> TRUE, ids |-> <<>>]
link(id) == [panic |-> FALSE, ids |-> <<id>>]
link_all(ids) == [panic |-> FALSE, ids |-> ids]
\* link_importable descending into the items of a trait as well
link_importable_trait_items(item) ==
    CASE item.inner.kind \in {"Module", "Trait"} -> link_all(item.inner.items)
      [] item.inner.kind = "Use" /\ item.inner.is_glob /\ is_some(item.inner.id) ->
            link(unwrap(item.inner.id))
      [] OTHER -> LinkNone

link_importable(item) ==
    CASE item.inner.kind = "Module" -> link_all(item.inner.items)
      [] item.inner.kind = "Use" /\ item.inner.is_glob /\ is_some(item.inner.id) ->
            link(unwrap(item.inner.id))
      [] OTHER -> LinkNone

\* The signature walk of link_visible. Each link_visible_* function is given
\* by what it links itself (ids) and the calls it then makes, in order (next);
\* link_visible_walk runs the calls depth first, as the call stack does.
Node(fn, node) == [fn |-> fn, node |-> node]
Nodes(fn, nodes) == [i \in DOMAIN nodes |-> Node(fn, nodes[i])]
OptNode(fn, opt) == IF is_some(opt) THEN <<Node(fn, unwrap(opt))>> ELSE <<>>
Walk(ids, next) == [panic |-> FALSE, ids |-> ids, next |-> next]
WalkPanic == [panic |-> TRUE, ids |-> <<>>, next |-> <<>>]

link_visible_term(term) ==
    Walk(<<>>, IF term.t = "Type" THEN <<Node("type", term.type_)>> ELSE <<>>)

link_visible_generic_param(param) ==
    IF param.t = "Type"
    THEN Walk(<<>>, Nodes("generic_bound", param.bounds) \o OptNode("type", param.default))
    ELSE Walk(<<>>, <<>>)

link_visible_generic_bound(bound) ==
    IF bound.t = "TraitBound"
    THEN Walk(<<>>, <<Node("path", bound.trait_)>>
                    \o Nodes("generic_param", bound.generic_params))
    ELSE Walk(<<>>, <<>>)

\* link_visible_path without bfs.link(path.id)
link_visible_path_args_only(path) ==
    Walk(<<>>, OptNode("generic_args", path.args))
link_visible_path(path) ==
    Walk(<<path.id>>, OptNode("generic_args", path.args))

\* the body of `for constraint in constraints`
link_visible_constraint(constraint) ==
    Walk(<<>>, <<Node("generic_args", constraint.args)>>
               \o (IF constraint.binding.t = "Equality"
                   THEN <<Node("term", constraint.binding.term)>>
                   ELSE Nodes("generic_bound", constraint.binding.bounds)))

link_visible_generic_args(args) ==
    IF args.t = "AngleBracketed"
    THEN Walk(<<>>,
              ConcatAll([i \in DOMAIN args.args |->
                  IF args.args[i].t = "Type"
                  THEN <<Node("type", args.args[i].type_)>> ELSE <<>>])
              \o Nodes("constraint", args.constraints))
    ELSE Walk(<<>>, Nodes("type", args.inputs) \o OptNode("type", args.output))

\* the body of `for trait_ in &dyn_trait.traits`
link_visible_poly_trait(trait_) ==
    Walk(<<>>, <<Node("path", trait_.trait_)>>
               \o Nodes("generic_param", trait_.generic_params))

\* link_visible_function_signature without the return type
link_visible_function_signature_inputs(sig) ==
    Walk(<<>>, [i \in DOMAIN sig.inputs |-> Node("type", sig.inputs[i][2])])
link_visible_function_signature(sig) ==
    Walk(<<>>, [i \in DOMAIN sig.inputs |-> Node("type", sig.inputs[i][2])]
               \o OptNode("type", sig.output))

link_visible_type(type_) ==
    CASE type_.t = "ResolvedPath" -> Walk(<<>>, <<Node("path", type_.path)>>)
      [] type_.t = "DynTrait" -> Walk(<<>>, Nodes("poly_trait", type_.traits))
      [] type_.t \in {"Generic", "Primitive", "Infer"} -> Walk(<<>>, <<>>)
      [] type_.t = "FunctionPointer" ->
            Walk(<<>>, <<Node("function_signature", type_.sig)>>
                       \o Nodes("generic_param", type_.generic_params))
      [] type_.t = "Tuple" -> Walk(<<>>, Nodes("type", type_.types))
      [] type_.t \in {"Slice", "Array", "RawPointer", "BorrowedRef"} ->
            Walk(<<>>, <<Node("type", type_.type_)>>)
      [] type_.t = "Pat" -> WalkPanic  \* unimplemented!()
      [] type_.t = "ImplTrait" -> Walk(<<>>, Nodes("generic_bound", type_.bounds))
      [] type_.t = "QualifiedPath" ->
            Walk(<<>>, <<Node("generic_args", type_.args), Node("type", type_.self_type)>>
                       \o OptNode("path", type_.trait_))

\* the body of `for where_predicate in &generics.where_predicates`
link_visible_where_predicate(wp) ==
    CASE wp.t = "BoundPredicate" ->
            Walk(<<>>, <<Node("type", wp.type_)>>
                       \o Nodes("generic_bound", wp.bounds)
                       \o Nodes("generic_param", wp.generic_params))
      [] wp.t = "LifetimePredicate" -> Walk(<<>>, <<>>)
      [] wp.t = "EqPredicate" ->
            Walk(<<>>, <<Node("type", wp.lhs), Node("term", wp.rhs)>>)

link_visible_generics(generics) ==
    Walk(<<>>, Nodes("generic_param", generics.params)
               \o Nodes("where_predicate", generics.where_predicates))

\* link(id) and link_all(ids) called from link_visible itself
link_visible_ids(ids) == Walk(ids, <<>>)

link_visible_call(n) ==
    CASE n.fn = "type" -> link_visible_type(n.node)
      [] n.fn = "path" -> link_visible_path(n.node)
      [] n.fn = "generic_args" -> link_visible_generic_args(n.node)
      [] n.fn = "constraint" -> link_visible_constraint(n.node)
      [] n.fn = "generic_bound" -> link_visible_generic_bound(n.node)
      [] n.fn = "generic_param" -> link_visible_generic_param(n.node)
      [] n.fn = "term" -> link_visible_term(n.node)
      [] n.fn = "poly_trait" -> link_visible_poly_trait(n.node)
      [] n.fn = "function_signature" -> link_visible_function_signature(n.node)
      [] n.fn = "where_predicate" -> link_visible_where_predicate(n.node)
      [] n.fn = "generics" -> link_visible_generics(n.node)
      [] n.fn = "ids" -> link_visible_ids(n.node)

RECURSIVE link_visible_walk(_)
link_visible_rest(called, rest) ==
    IF rest.panic THEN LinkPanic ELSE link_all(called.ids \o rest.ids)

link_visible_next(called, calls) ==
    IF called.panic THEN LinkPanic
    ELSE link_visible_rest(called, link_visible_walk(called.next \o calls))

link_visible_walk(calls) ==
    IF calls = <<>> THEN LinkNone
    ELSE link_visible_next(link_visible_call(Head(calls)), Tail(calls))

\* the Some(field) entries of a tuple struct or tuple variant, in order
some_fields(fields) ==
    ConcatAll([i \in DOMAIN fields |-> IF is_some(fields[i]) THEN fields[i] ELSE <<>>])

\* the calls link_visible makes for the item, in order; <<>> for a panic arm
link_visible_calls(inner) ==
    CASE inner.kind = "Module" -> <<>>
      [] inner.kind = "Use" /\ inner.is_glob -> <<>>
      [] inner.kind = "Union" ->
            <<Node("generics", inner.generics), Node("ids", inner.fields),
              Node("ids", inner.impls)>>
      [] inner.kind = "Struct" ->
            <<Node("ids", CASE inner.skind.k = "Unit" -> <<>>
                            [] inner.skind.k = "Tuple" -> some_fields(inner.skind.fields)
                            [] inner.skind.k = "Plain" -> inner.skind.fields),
              Node("generics", inner.generics), Node("ids", inner.impls)>>
      [] inner.kind = "StructField" -> <<Node("type", inner.type_)>>
      [] inner.kind = "Enum" ->
            <<Node("generics", inner.generics), Node("ids", inner.variants),
              Node("ids", inner.impls)>>
      [] inner.kind = "Variant" ->
            <<Node("ids", CASE inner.vkind.k = "Plain" -> <<>>
                            [] inner.vkind.k = "Tuple" -> some_fields(inner.vkind.fields)
                            [] inner.vkind.k = "Struct" -> inner.vkind.fields)>>
      [] inner.kind = "Function" ->
            <<Node("function_signature", inner.sig), Node("generics", inner.generics)>>
      [] inner.kind = "Trait" ->
            <<Node("ids", inner.items), Node("generics", inner.generics)>>
            \o Nodes("generic_bound", inner.bounds)
      [] inner.kind = "Impl" ->
            <<Node("generics", inner.generics), Node("ids", inner.items)>>
      [] inner.kind = "TypeAlias" ->
            <<Node("type", inner.type_), Node("generics", inner.generics)>>
      [] inner.kind \in {"Constant", "Static", "AssocConst"} ->
            <<Node("type", inner.type_)>>
      [] inner.kind \in {"Macro", "ProcMacro", "Primitive"} -> <<>>
      [] inner.kind = "AssocType" ->
            <<Node("generics", inner.generics)>>
            \o Nodes("generic_bound", inner.bounds)
            \o OptNode("type", inner.type_)
      [] OTHER -> <<>>

\* link_visible passing over trait aliases and extern types
link_visible_panics_not_canonical(inner) ==
    \/ inner.kind = "ExternCrate"
    \/ (inner.kind = "Use" /\ ~inner.is_glob)

\* the arms of link_visible that are unreachable!() or unimplemented!()
link_visible_panics(inner) ==
    \/ inner.kind = "ExternCrate"              \* unreachable!("not canonical")
    \/ (inner.kind = "Use" /\ ~inner.is_glob)  \* unreachable!("not canonical")
    \/ inner.kind = "TraitAlias"               \* unimplemented!()
    \/ inner.kind = "ExternType"               \* unimplemented!()

\* a link_visible whose Impl arm walks the implemented trait and the self type
link_visible_impl_header(item) ==
    IF link_visible_panics(item.inner) THEN LinkPanic
    ELSE IF item.inner.kind = "Impl"
    THEN link_visible_walk(OptNode("path", item.inner.trait_)
                           \o <<Node("type", item.inner.for_)>>
                           \o link_visible_calls(item.inner))
    ELSE link_visible_walk(link_visible_calls(item.inner))

link_visible(item) ==
    IF link_visible_panics(item.inner) THEN LinkPanic
    ELSE link_visible_walk(link_visible_calls(item.inner))

\* ------------------------------------------------------------ the program state
VARIABLES
    world,          \* the input: provider's packages, the root package, the build profile
    crate_lookup,   \* GraphCache.crate_lookup: crate name -> crate index
    crates,         \* GraphCache.crates: Vec<CrateEntry>, crate index i is crates[i + 1]
    builds,         \* the package names build_rustdoc_json was called with, in order
    pc,             \* position of main, or of the caller of the GraphCache operations
    bfs_link,       \* the linker of the running bfs: "importable" or "visible"
    queue,          \* bfs: VecDeque<CanonId>
    hash,           \* bfs: HashMap<CanonId, String>
    importable,     \* main: the map returned by the first bfs
    visible,        \* main: the map returned by the second bfs
    stdout,         \* lines printed by main
    stderr,         \* number of errors bfs printed with eprintln!
    last            \* the last GraphCache operation called directly, with its outcome

vars == <<world, crate_lookup, crates, builds, pc, bfs_link, queue, hash,
          importable, visible, stdout, stderr, last>>

\* ---------------------------------------------------------------- results
\* Result<T, ResolveErr>, plus the two ways the process dies: a panic (unwrap,
\* expect, panic!, unimplemented!, unreachable!, slice index) and a stack overflow.
Ok(v) == [tag |-> "Ok", val |-> v]
Ignore == [tag |-> "Ignore"]
Fail == [tag |-> "Fail"]
Panic == [tag |-> "Panic"]
Overflow == [tag |-> "Overflow"]
Dies(r) == r.tag \in {"Panic", "Overflow"}

\* the part of the state the GraphCache owns
G(lookup, cr, b) == [crate_lookup |-> lookup, crates |-> cr, builds |-> b]
Ret(g, r) == [g |-> g, r |-> r]

\* a list that misses `test`
STDLIBS_without_test == {s_std, s_core, s_alloc, s_proc_macro}

STDLIBS == {s_std, s_core, s_alloc, s_proc_macro, s_test}

AbsId(crate_idx, item_id) == [crate_idx |-> crate_idx, item_id |-> item_id]
same_crate(self, item_id) == AbsId(self.crate_idx, item_id)

\* self.crates[crate_idx].rustdoc_json.get()
rustdoc_json(g, crate_idx) == g.crates[crate_idx + 1].rustdoc_json

\* Vec::get(i).and_then(|opt| opt.as_ref()) on a Vec<Option<T>>
vec_get(v, i) == IF i + 1 \in DOMAIN v THEN v[i + 1] ELSE None
\* a vector that keeps the written slot only
vec_set_alone(v, i, slot) ==
    [k \in 1..(IF Len(v) <= i THEN i + 1 ELSE Len(v)) |->
        IF k = i + 1 THEN slot ELSE None]

\* while v.len() <= i { v.push(None) }; v[i] = slot
vec_set(v, i, slot) ==
    [k \in 1..(IF Len(v) <= i THEN i + 1 ELSE Len(v)) |->
        IF k = i + 1 THEN slot ELSE IF k <= Len(v) THEN v[k] ELSE None]

ResolveCacheEntry_Id(id) == [e |-> "Id", id |-> id]
ResolveCacheEntry_Ignore == [e |-> "Ignore"]

\* a map that never reports a key
contains_key_never(m, k) == FALSE
\* HashMap::contains_key, HashMap::insert and HashMap::extend
contains_key(m, k) == k \in DOMAIN m
insert(m, k, v) == [x \in DOMAIN m \cup {k} |-> IF x = k THEN v ELSE m[x]]
\* an extend that keeps the entries the map already has
extend_keep(m, m2) ==
    [x \in DOMAIN m \cup DOMAIN m2 |-> IF x \in DOMAIN m THEN m[x] ELSE m2[x]]
extend(m, m2) == [x \in DOMAIN m \cup DOMAIN m2 |-> IF x \in DOMAIN m2 THEN m2[x] ELSE m[x]]
EmptyMap == <<>>

\* ---------------------------------------------------- Doc-JSON provider
build_rustdoc_json_inner(package) ==
    IF package \in DOMAIN world.packages THEN Ok(world.packages[package]) ELSE Fail

build_rustdoc_json(package0) ==
    LET package == replace(package0, ch_underscore, ch_hyphen)
        first == build_rustdoc_json_inner(package)
        package_underscores == replace(package, ch_hyphen, ch_underscore)
    IN  IF first.tag = "Ok" THEN first
        ELSE IF package # package_underscores
             THEN build_rustdoc_json_inner(package_underscores)
             ELSE first

\* CliArgs::package
root_package == world.root_package

\* ------------------------------------------------------------ GraphCache
canon_id(g, id) ==
    IF world.debug_assertions
    THEN LET item == get(rustdoc_json(g, id.crate_idx).index, id.item_id) IN
         IF ~is_some(item) THEN Panic  \* expect("Canon id not internal")
         ELSE IF unwrap(item).inner.kind = "ExternCrate"
                 \/ (unwrap(item).inner.kind = "Use" /\ ~unwrap(item).inner.is_glob)
              THEN Panic  \* panic!("Canon id not canon")
              ELSE Ok(id)
    ELSE Ok(id)

module_id(g, id) ==
    LET c == canon_id(g, id) IN
    IF c.tag # "Ok" THEN c
    ELSE IF world.debug_assertions
         THEN LET item == get(rustdoc_json(g, id.crate_idx).index, id.item_id) IN
              IF ~is_some(item) THEN Panic  \* unwrap()
              ELSE IF unwrap(item).inner.kind # "Module" THEN Panic
              ELSE c
         ELSE c

\* the items of a rustdoc index that are a crate's root module
crate_roots(index) ==
    {k \in DOMAIN index : index[k].inner.kind = "Module" /\ index[k].inner.is_crate}

\* a resolve_crate that registers the package before it looks for the root module
resolve_crate_push_first(g, crate_name0) ==
    LET crate_name == IF crate_name0 = s_webpki THEN s_rustls_webpki ELSE crate_name0 IN
    IF crate_name \in STDLIBS THEN Ret(g, Ignore)
    ELSE IF crate_name \in DOMAIN g.crate_lookup
    THEN LET crate_idx == g.crate_lookup[crate_name] IN
         Ret(g, module_id(g, AbsId(crate_idx, g.crates[crate_idx + 1].root_module)))
    ELSE
    LET crate_idx == Len(g.crates)
        json == build_rustdoc_json(crate_name)
        g1 == [g EXCEPT !.builds = Append(@, crate_name)]
    IN  IF json.tag # "Ok" THEN Ret(g1, Fail)
        ELSE
        LET roots == crate_roots(json.val.index)
            root_module == IF roots = {} THEN 0
                           ELSE json.val.index[CHOOSE k \in roots : TRUE].id
            g2 == [g1 EXCEPT
                    !.crates = Append(@, [rustdoc_json |-> json.val,
                                          root_module |-> root_module,
                                          resolve_cache |-> <<>>,
                                          import_cache |-> <<>>])]
            g3 == [g2 EXCEPT !.crate_lookup = insert(@, crate_name, crate_idx)]
        IN  IF roots = {} THEN Ret(g2, Fail)
            ELSE Ret(g3, module_id(g3, AbsId(crate_idx, root_module)))

resolve_crate(g, crate_name0) ==
    LET crate_name == IF crate_name0 = s_webpki THEN s_rustls_webpki ELSE crate_name0 IN
    IF crate_name \in STDLIBS THEN Ret(g, Ignore)
    ELSE IF crate_name \in DOMAIN g.crate_lookup
    THEN LET crate_idx == g.crate_lookup[crate_name] IN
         Ret(g, module_id(g, AbsId(crate_idx, g.crates[crate_idx + 1].root_module)))
    ELSE
    LET crate_idx == Len(g.crates)
        json == build_rustdoc_json(crate_name)
        g1 == [g EXCEPT !.builds = Append(@, crate_name)]
    IN  IF json.tag # "Ok" THEN Ret(g1, Fail)
        ELSE IF crate_roots(json.val.index) = {} THEN Ret(g1, Fail)
        ELSE
        LET root_module == json.val.index[CHOOSE k \in crate_roots(json.val.index) : TRUE].id
            g2 == [g1 EXCEPT
                    !.crates = Append(@, [rustdoc_json |-> json.val,
                                          root_module |-> root_module,
                                          resolve_cache |-> <<>>,
                                          import_cache |-> <<>>]),
                    !.crate_lookup = insert(@, crate_name, crate_idx)]
        IN  Ret(g2, module_id(g2, AbsId(crate_idx, root_module)))


\* a resolve-cache entry read back as the result of resolve
cached_result(entry) == IF entry.e = "Id" THEN Ok(entry.id) ELSE Ignore

\* The last argument of the recursive functions is the call nesting still
\* available; it is checked where the recursion re-enters (resolve and
\* module_namespace_inner). The result of a nested call is handed to the
\* operator that models the code after the call.
RECURSIVE resolve(_, _, _, _)
RECURSIVE resolve_inner(_, _, _, _)
RECURSIVE resolve_path(_, _, _, _)
RECURSIVE module_namespace(_, _, _)
RECURSIVE module_namespace_inner(_, _, _)
RECURSIVE namespace_children(_, _, _, _, _)

\* a resolve that hands the result on and stores nothing
resolve_store_nothing(id, inner) == inner

\* resolve after resolve_inner returned `inner`: the "must cache" branch
resolve_must_cache(id, inner) ==
    IF Dies(inner.r) THEN inner
    ELSE Ret([inner.g EXCEPT !.crates[id.crate_idx + 1].resolve_cache =
                    vec_set(@, id.item_id,
                        CASE inner.r.tag = "Ok" -> Some(ResolveCacheEntry_Id(inner.r.val))
                          [] inner.r.tag = "Ignore" -> Some(ResolveCacheEntry_Ignore)
                          [] OTHER -> vec_get(@, id.item_id))],
             inner.r)

resolve_cached(g, id) == vec_get(g.crates[id.crate_idx + 1].resolve_cache, id.item_id)

resolve(g, id, filter_public, depth) ==
    IF depth = 0 THEN Ret(g, Overflow)
    ELSE IF is_some(resolve_cached(g, id))
    THEN Ret(g, cached_result(unwrap(resolve_cached(g, id))))
    ELSE resolve_must_cache(id, resolve_inner(g, id, filter_public, depth - 1))

\* the external branch handing resolve_path every segment
resolve_external_whole(item_summary, crate_id, depth) ==
    IF crate_id.r.tag # "Ok" THEN crate_id
    ELSE resolve_path(crate_id.g, crate_id.r.val, item_summary.path, depth)

\* resolve_inner, external id, after resolve_crate returned `crate_id`
resolve_external(item_summary, crate_id, depth) ==
    IF crate_id.r.tag # "Ok" THEN crate_id
    ELSE IF item_summary.path = <<>> THEN Ret(crate_id.g, Panic)  \* path[1..]
    ELSE resolve_path(crate_id.g, crate_id.r.val, Tail(item_summary.path), depth)

\* resolve_inner, external id: the path summary and the external crate's name
resolve_summary(g, json, item_summary, depth) ==
    IF ~is_some(item_summary) THEN Ret(g, Fail)
    ELSE IF ~is_some(get(json.external_crates, unwrap(item_summary).crate_id))
    THEN Ret(g, Fail)
    ELSE resolve_external(unwrap(item_summary),
            resolve_crate(g, unwrap(get(json.external_crates,
                                        unwrap(item_summary).crate_id)).name),
            depth)

\* resolve_item following a re-export by one step only
resolve_item_one_step(g, id, item, depth) ==
    CASE item.inner.kind = "ExternCrate" ->
            resolve_crate(g, item.inner.name)
      [] item.inner.kind = "Use" /\ is_some(item.inner.id) /\ ~item.inner.is_glob ->
            Ret(g, canon_id(g, same_crate(id, unwrap(item.inner.id))))
      [] OTHER -> Ret(g, canon_id(g, id))

\* resolve_item taking every item for its own declaration
resolve_item_no_reexport(g, id, item, depth) == Ret(g, canon_id(g, id))

\* resolve_inner, id internal to its crate
resolve_item(g, id, item, depth) ==
    \* filter_public is read and has no effect (the early return is commented out)
    CASE item.inner.kind = "ExternCrate" ->
            resolve_crate(g, item.inner.name)
      [] item.inner.kind = "Use" /\ is_some(item.inner.id) /\ ~item.inner.is_glob ->
            resolve(g, same_crate(id, unwrap(item.inner.id)), FALSE, depth)
      [] OTHER -> Ret(g, canon_id(g, id))

\* a resolve_inner whose filter returns early ("ignore private item")
resolve_inner_filtering(g, id, filter_public, depth) ==
    IF is_some(resolve_cached(g, id))
    THEN Ret(g, cached_result(unwrap(resolve_cached(g, id))))
    ELSE IF id.item_id \in DOMAIN rustdoc_json(g, id.crate_idx).index
    THEN IF filter_public
            /\ rustdoc_json(g, id.crate_idx).index[id.item_id].visibility # "Public"
         THEN Ret(g, Ignore)
         ELSE resolve_item(g, id, rustdoc_json(g, id.crate_idx).index[id.item_id], depth)
    ELSE resolve_summary(g, rustdoc_json(g, id.crate_idx),
                         get(rustdoc_json(g, id.crate_idx).paths, id.item_id), depth)

resolve_inner(g, id, filter_public, depth) ==
    IF is_some(resolve_cached(g, id))
    THEN Ret(g, cached_result(unwrap(resolve_cached(g, id))))
    ELSE IF id.item_id \in DOMAIN rustdoc_json(g, id.crate_idx).index
    THEN resolve_item(g, id, rustdoc_json(g, id.crate_idx).index[id.item_id], depth)
    ELSE resolve_summary(g, rustdoc_json(g, id.crate_idx),
                         get(rustdoc_json(g, id.crate_idx).paths, id.item_id), depth)

\* resolve_path_lookup stopping at the first segment
resolve_path_lookup_first(path, namespace, depth) ==
    IF namespace.r.tag # "Ok" THEN namespace
    ELSE IF Head(path) \notin DOMAIN namespace.r.val THEN Ret(namespace.g, Fail)
    ELSE Ret(namespace.g, Ok(namespace.r.val[Head(path)]))

\* resolve_path after module_namespace returned `namespace`
resolve_path_lookup(path, namespace, depth) ==
    IF namespace.r.tag # "Ok" THEN namespace
    ELSE IF Head(path) \notin DOMAIN namespace.r.val THEN Ret(namespace.g, Fail)
    ELSE resolve_path(namespace.g, namespace.r.val[Head(path)], Tail(path), depth)

\* resolve_path taking `__private` for a name like any other
resolve_path_no_private(g, id, path, depth) ==
    IF path = <<>> THEN Ret(g, Ok(id))
    ELSE resolve_path_lookup(path, module_namespace(g, id, depth), depth)

resolve_path(g, id, path, depth) ==
    IF path = <<>> THEN Ret(g, Ok(id))
    ELSE IF Head(path) = s___private THEN Ret(g, Ignore)
    ELSE resolve_path_lookup(path, module_namespace(g, id, depth), depth)

\* module_namespace after module_namespace_inner returned `namespace`
module_namespace_cache(id, namespace) ==
    IF namespace.r.tag # "Ok" THEN namespace
    ELSE Ret([namespace.g EXCEPT !.crates[id.crate_idx + 1].import_cache =
                    vec_set(@, id.item_id, Some(namespace.r.val))],
             namespace.r)

module_namespace(g, id, depth) ==
    IF is_some(vec_get(g.crates[id.crate_idx + 1].import_cache, id.item_id))
    THEN Ret(g, Ok(unwrap(vec_get(g.crates[id.crate_idx + 1].import_cache, id.item_id))))
    ELSE module_namespace_cache(id, module_namespace_inner(g, id, depth))

module_namespace_inner(g, id, depth) ==
    IF depth = 0 THEN Ret(g, Overflow)
    ELSE IF id.item_id \notin DOMAIN rustdoc_json(g, id.crate_idx).index
    THEN Ret(g, Panic)  \* unwrap()
    ELSE IF rustdoc_json(g, id.crate_idx).index[id.item_id].inner.kind # "Module"
    THEN Ret(g, Fail)  \* bail!
    ELSE namespace_children(g, id,
            rustdoc_json(g, id.crate_idx).index[id.item_id].inner.items,
            EmptyMap, depth - 1)

\* a glob arm that drops the glob-imported namespace
namespace_glob_dropped(id, items, namespace, glob_imported_namespace, depth) ==
    IF glob_imported_namespace.r.tag # "Ok" THEN glob_imported_namespace
    ELSE namespace_children(glob_imported_namespace.g, id, Tail(items), namespace, depth)

\* the glob arm after module_namespace_inner returned the glob-imported namespace
namespace_glob_union(id, items, namespace, glob_imported_namespace, depth) ==
    IF glob_imported_namespace.r.tag # "Ok" THEN glob_imported_namespace
    ELSE namespace_children(glob_imported_namespace.g, id, Tail(items),
                            extend(namespace, glob_imported_namespace.r.val), depth)

\* the glob arm after resolve returned the glob-imported module's id
namespace_glob(id, items, namespace, glob_imported, depth) ==
    IF glob_imported.r.tag = "Ignore"
    THEN namespace_children(glob_imported.g, id, Tail(items), namespace, depth)
    ELSE IF glob_imported.r.tag # "Ok" THEN glob_imported
    ELSE namespace_glob_union(id, items, namespace,
            module_namespace_inner(glob_imported.g, glob_imported.r.val, depth), depth)

\* the loop body once the child is canonicalized to child_id, whose item is child_found
namespace_child_item(g, id, items, namespace, child_id, child_found, depth) ==
    IF ~is_some(child_found) THEN Ret(g, Panic)  \* unwrap()
    ELSE IF is_some(unwrap(child_found).name)
    THEN namespace_children(g, id, Tail(items),
                            insert(namespace, unwrap(unwrap(child_found).name), child_id),
                            depth)
    ELSE IF unwrap(child_found).inner.kind = "Use"
            /\ is_some(unwrap(child_found).inner.id)
            /\ unwrap(child_found).inner.is_glob
    THEN namespace_glob(id, items, namespace,
            resolve(g, same_crate(child_id, unwrap(unwrap(child_found).inner.id)),
                    FALSE, depth),
            depth)
    ELSE namespace_children(g, id, Tail(items), namespace, depth)

\* a loop body that fails on an ignored child
namespace_child_strict(id, items, namespace, child, depth) ==
    IF child.r.tag = "Ignore" THEN Ret(child.g, Fail)
    ELSE IF child.r.tag # "Ok" THEN child
    ELSE namespace_child_item(child.g, id, items, namespace, child.r.val,
            get(rustdoc_json(child.g, child.r.val.crate_idx).index, child.r.val.item_id),
            depth)

\* the loop body after resolve returned `child`
namespace_child(id, items, namespace, child, depth) ==
    IF child.r.tag = "Ignore"
    THEN namespace_children(child.g, id, Tail(items), namespace, depth)
    ELSE IF child.r.tag # "Ok" THEN child
    ELSE namespace_child_item(child.g, id, items, namespace, child.r.val,
            get(rustdoc_json(child.g, child.r.val.crate_idx).index, child.r.val.item_id),
            depth)

\* the loop of module_namespace_inner over the children not yet visited
namespace_children(g, id, items, namespace, depth) ==
    IF items = <<>> THEN Ret(g, Ok(namespace))
    ELSE namespace_child(id, items, namespace,
            resolve(g, same_crate(id, Head(items)), FALSE, depth), depth)

\* resolve2: a crate name and a path from its root
resolve2_path(crate_id, path) ==
    IF crate_id.r.tag # "Ok" THEN crate_id
    ELSE resolve_path(crate_id.g, crate_id.r.val, path, MaxDepth)

resolve2_map_err(res) == IF res.r.tag = "Ignore" THEN Ret(res.g, Fail) ELSE res

resolve2(g, crate_name, path) ==
    resolve2_map_err(resolve2_path(resolve_crate(g, crate_name), path))


\* ------------------------------------------------------------------- bfs
\* Index<CanonId> for GraphCache
graph_index(g, id) == get(rustdoc_json(g, id.crate_idx).index, id.item_id)

\* {:?} of Option<Box<GenericArgs>>, for the argument lists the inputs use
debug_args(args) ==
    CASE args = None -> s_None
      [] args = Some(AngleBracketed(<<>>, <<>>)) -> s_SomeEmptyAngle

\* is_public that takes a child absent from the index for public
is_public_or_absent(found) ==
    ~is_some(found)
    \/ unwrap(found).visibility = "Public"
    \/ (unwrap(found).visibility = "Default"
        /\ unwrap(found).inner.kind \in {"AssocType", "Variant", "Impl"})

\* is_public that counts only an explicit `pub`
is_public_explicit(found) ==
    is_some(found) /\ unwrap(found).visibility = "Public"

is_public(found) ==
    is_some(found)
    /\ (unwrap(found).visibility = "Public"
        \/ (unwrap(found).visibility = "Default"
            /\ unwrap(found).inner.kind \in {"AssocType", "Variant", "Impl"}))

\* an item2_name that gives every item without a name no segment
item2_name_declared(json, iid2) ==
    IF is_some(get(json.index, iid2)) THEN Ok(unwrap(get(json.index, iid2)).name)
    ELSE IF ~is_some(get(json.paths, iid2)) THEN Fail
    ELSE Ok(IF unwrap(get(json.paths, iid2)).path = <<>> THEN None
            ELSE Some(unwrap(get(json.paths, iid2)).path[
                          Len(unwrap(get(json.paths, iid2)).path)]))

\* item2_name: Result<Option<String>, Error> for the child iid2 of the crate json
item2_name(json, iid2) ==
    LET found == get(json.index, iid2) IN
    IF is_some(found)
    THEN LET item2 == unwrap(found) IN
         IF is_some(item2.name) THEN Ok(item2.name)
         ELSE (CASE item2.inner.kind = "Impl" /\ ~is_some(item2.inner.trait_) -> Ok(None)
                 [] item2.inner.kind = "Impl" /\ is_some(item2.inner.trait_) ->
                       Ok(Some(s_impl_open \o unwrap(item2.inner.trait_).name \o s_lt
                               \o debug_args(unwrap(item2.inner.trait_).args)
                               \o s_impl_close))
                 [] item2.inner.kind = "ExternCrate" /\ ~is_some(item2.inner.rename) ->
                       Ok(Some(item2.inner.name))
                 [] item2.inner.kind = "ExternCrate" /\ is_some(item2.inner.rename) ->
                       Ok(item2.inner.rename)
                 [] item2.inner.kind = "Use" /\ ~item2.inner.is_glob ->
                       Ok(Some(item2.inner.name))
                 [] item2.inner.kind = "Use" /\ item2.inner.is_glob -> Ok(None)
                 [] OTHER -> Fail)
    ELSE LET item_summary == get(json.paths, iid2) IN
         IF ~is_some(item_summary) THEN Fail
         ELSE LET path == unwrap(item_summary).path IN
              Ok(IF path = <<>> THEN None ELSE Some(path[Len(path)]))

\* a label that never gets a segment
item2_path_parent(parent_path, name) == parent_path

\* format!("{}::{}", parent, name), or the parent's path when there is no name
item2_path(parent_path, name) ==
    IF is_some(name) THEN parent_path \o s_colons \o unwrap(name) ELSE parent_path

\* the locals of a running bfs
Loc(h, q, e) == [hash |-> h, queue |-> q, stderr |-> e]

\* The inner loop of bfs: drains the linker's ids (children) for the dequeued
\* id. The result is Ok(locals), Fail (bfs returns Err) or a death.
RECURSIVE bfs_children(_, _, _, _, _)

\* an insert that always enqueues
bfs_insert_enqueue(g, id, children, loc, require_public, id2, name, public) ==
    IF name.tag # "Ok" THEN Ret(g, Fail)
    ELSE bfs_children(g, id, Tail(children),
            Loc(insert(loc.hash, id2, item2_path(loc.hash[id], name.val)),
                Append(loc.queue, id2), loc.stderr),
            require_public)

\* a child that resolved to id2, not yet in hash, with its label computed
bfs_insert(g, id, children, loc, require_public, id2, name, public) ==
    IF name.tag # "Ok" THEN Ret(g, Fail)
    ELSE bfs_children(g, id, Tail(children),
            Loc(insert(loc.hash, id2, item2_path(loc.hash[id], name.val)),
                IF public THEN Append(loc.queue, id2) ELSE loc.queue,
                loc.stderr),
            require_public)

\* a loop body that returns the failure of resolve to the caller of bfs
bfs_child_fatal(id, children, loc, require_public, res, public) ==
    CASE res.r.tag = "Ok" ->
            IF contains_key(loc.hash, res.r.val)
            THEN bfs_children(res.g, id, Tail(children), loc, require_public)
            ELSE bfs_insert(res.g, id, children, loc, require_public, res.r.val,
                            item2_name(rustdoc_json(res.g, id.crate_idx), Head(children)),
                            public)
      [] res.r.tag = "Ignore" ->
            bfs_children(res.g, id, Tail(children), loc, require_public)
      [] OTHER -> res

\* a loop body that enqueues an id every time a child resolves to it
bfs_child_reenqueue(id, children, loc, require_public, res, public) ==
    CASE res.r.tag = "Ok" ->
            IF contains_key(loc.hash, res.r.val)
            THEN bfs_children(res.g, id, Tail(children),
                              Loc(loc.hash,
                                  IF public THEN Append(loc.queue, res.r.val)
                                  ELSE loc.queue,
                                  loc.stderr),
                              require_public)
            ELSE bfs_insert(res.g, id, children, loc, require_public, res.r.val,
                            item2_name(rustdoc_json(res.g, id.crate_idx), Head(children)),
                            public)
      [] res.r.tag = "Fail" ->
            bfs_children(res.g, id, Tail(children),
                         Loc(loc.hash, loc.queue, loc.stderr + 1), require_public)
      [] res.r.tag = "Ignore" ->
            bfs_children(res.g, id, Tail(children), loc, require_public)
      [] OTHER -> res

\* the loop body after resolve returned `res`
bfs_child(id, children, loc, require_public, res, public) ==
    CASE res.r.tag = "Ok" ->
            IF contains_key(loc.hash, res.r.val)
            THEN bfs_children(res.g, id, Tail(children), loc, require_public)
            ELSE bfs_insert(res.g, id, children, loc, require_public, res.r.val,
                            item2_name(rustdoc_json(res.g, id.crate_idx), Head(children)),
                            public)
      [] res.r.tag = "Fail" ->
            bfs_children(res.g, id, Tail(children),
                         Loc(loc.hash, loc.queue, loc.stderr + 1), require_public)
      [] res.r.tag = "Ignore" ->
            bfs_children(res.g, id, Tail(children), loc, require_public)
      [] OTHER -> res

\* an inner loop that resolves every child, public or not
bfs_children_unfiltered(g, id, children, loc, require_public) ==
    IF children = <<>> THEN Ret(g, Ok(loc))
    ELSE bfs_child(id, children, loc, require_public,
                   resolve(g, same_crate(id, Head(children)), TRUE, MaxDepth),
                   is_public(get(rustdoc_json(g, id.crate_idx).index, Head(children))))

bfs_children(g, id, children, loc, require_public) ==
    IF children = <<>> THEN Ret(g, Ok(loc))
    ELSE IF require_public
            /\ ~is_public(get(rustdoc_json(g, id.crate_idx).index, Head(children)))
    THEN bfs_children(g, id, Tail(children), loc, require_public)
    ELSE bfs_child(id, children, loc, require_public,
                   resolve(g, same_crate(id, Head(children)), TRUE, MaxDepth),
                   is_public(get(rustdoc_json(g, id.crate_idx).index, Head(children))))

\* the linker closure passed to bfs
apply_link(which, item) ==
    IF which = "importable" THEN link_importable(item) ELSE link_visible(item)

\* bfs after link(item, &mut linker) returned
bfs_drain(g, id, loc, require_public, linker) ==
    IF linker.panic THEN Ret(g, Panic)
    ELSE bfs_children(g, id, linker.ids, Loc(loc.hash, Tail(loc.queue), loc.stderr),
                      require_public)

\* One iteration of `while let Some(id) = queue.pop_front()`.
bfs_iteration(g, which, loc, require_public) ==
    IF ~is_some(graph_index(g, Head(loc.queue))) THEN Ret(g, Panic)  \* unwrap()
    ELSE bfs_drain(g, Head(loc.queue), loc, require_public,
                   apply_link(which, unwrap(graph_index(g, Head(loc.queue)))))

\* `while let Some(id) = queue.pop_front()` run to its end, and `Ok(hash)`
RECURSIVE bfs_loop(_, _, _, _)

\* the loop after the iteration `it`
bfs_loop_next(which, require_public, it) ==
    IF it.r.tag # "Ok" THEN it
    ELSE bfs_loop(it.g, which, it.r.val, require_public)

bfs_loop(g, which, loc, require_public) ==
    IF loc.queue = <<>> THEN Ret(g, Ok(loc.hash))
    ELSE bfs_loop_next(which, require_public,
                       bfs_iteration(g, which, loc, require_public))

\* ---------------------------------------------------------------- report
\* Vec::sort on strings (insertion into a sorted sequence)
RECURSIVE sort_insert(_, _)
sort_insert(sorted, x) ==
    IF sorted = <<>> THEN <<x>>
    ELSE IF str_le(x, Head(sorted)) THEN <<x>> \o sorted
    ELSE <<Head(sorted)>> \o sort_insert(Tail(sorted), x)

\* the values of map m at the keys ks, collected in some iteration order and sorted
RECURSIVE sorted_values(_, _)
sorted_values(m, ks) ==
    IF ks = {} THEN <<>>
    ELSE LET k == CHOOSE k \in ks : TRUE IN
         sort_insert(sorted_values(m, ks \ {k}), m[k])

\* graph[id].inner of the filter in main: TRUE keeps, "panic" is unimplemented!()
report_filter_kind(kind) ==
    CASE kind \in {"Union", "Struct", "Enum", "Trait", "TypeAlias"} -> "keep"
      [] kind \in {"TraitAlias", "ExternType"} -> "panic"
      [] OTHER -> "drop"

\* the report without its first filter
not_importable_unfiltered(vis, imp) == DOMAIN vis
not_importable(vis, imp) == {id \in DOMAIN vis : id \notin DOMAIN imp}

report_panics(g, vis, imp) ==
    \E id \in not_importable(vis, imp) :
        \/ ~is_some(graph_index(g, id))
        \/ report_filter_kind(unwrap(graph_index(g, id)).inner.kind) = "panic"

report_paths(g, vis, imp) ==
    sorted_values(vis,
        {id \in not_importable(vis, imp) :
            report_filter_kind(unwrap(graph_index(g, id)).inner.kind) = "keep"})


\* ------------------------------------------------------------ the inputs
\* An input is what the program reads from its environment: the root package
\* (CliArgs), the rustdoc JSON the provider builds per package, and whether the
\* binary was built with debug assertions. `probes` are the arguments the
\* direct callers of resolve2 use.
World(name, packages, debug_assertions, probes) ==
    [name |-> name, root_package |-> s_root, packages |-> packages,
     debug_assertions |-> debug_assertions, probes |-> probes]

Pub(id, name, inner) == Item(id, Some(name), "Public", inner)
Priv(id, name, inner) == Item(id, Some(name), "Default", inner)
UnitStruct == Struct(StructUnit, NoGenerics, <<>>)
NoPaths == <<>>

\* pub struct Foo { pub bar: Bar }  struct Bar;
Crate_FooBar ==
    Crate(0 :> Pub(0, s_root, Module(TRUE, <<1, 2>>))
       @@ 1 :> Pub(1, s_Foo, Struct(StructPlain(<<3>>), NoGenerics, <<>>))
       @@ 2 :> Priv(2, s_Bar, UnitStruct)
       @@ 3 :> Pub(3, s_bar, StructField(TypeOf(s_Bar, 2))),
          NoPaths, NoPaths)

\* mod inner { pub struct Zed; }  pub use inner::Zed;
Crate_Zed ==
    Crate(0 :> Pub(0, s_root, Module(TRUE, <<1, 2>>))
       @@ 1 :> Priv(1, s_inner, Module(FALSE, <<3>>))
       @@ 2 :> Item(2, None, "Public", Use(s_inner \o s_colons \o s_Zed, s_Zed, Some(3), FALSE))
       @@ 3 :> Pub(3, s_Zed, UnitStruct),
          NoPaths, NoPaths)

\* mod other { pub struct Alpha; struct Beta; }  pub use other::*;
Crate_Glob ==
    Crate(0 :> Pub(0, s_root, Module(TRUE, <<1, 2>>))
       @@ 1 :> Priv(1, s_other, Module(FALSE, <<3, 4>>))
       @@ 2 :> Item(2, None, "Public", Use(s_other, s_other, Some(1), TRUE))
       @@ 3 :> Pub(3, s_Alpha, UnitStruct)
       @@ 4 :> Item(4, Some(s_Beta), "Restricted", UnitStruct),
          NoPaths, NoPaths)

\* pub fn f() -> dep::T   (T is item 10 of the dependency's paths)
Crate_DepT ==
    Crate(0 :> Pub(0, s_root, Module(TRUE, <<1>>))
       @@ 1 :> Pub(1, s_f, Function(FunctionSignature(<<>>, Some(TypeOf(s_T, 10))),
                                    NoGenerics)),
          10 :> ItemSummary(1, <<s_dep, s_T>>),
          1 :> ExternalCrate(s_dep))

\* pub fn f() -> dep::internal::Q
Crate_DepQ ==
    Crate(0 :> Pub(0, s_root, Module(TRUE, <<1>>))
       @@ 1 :> Pub(1, s_f, Function(FunctionSignature(<<>>, Some(TypeOf(s_Q, 10))),
                                    NoGenerics)),
          10 :> ItemSummary(1, <<s_dep, s_internal, s_Q>>),
          1 :> ExternalCrate(s_dep))

\* the dependency: pub struct T;  pub mod internal { pub struct Q; }
Crate_Dep ==
    Crate(0 :> Pub(0, s_dep, Module(TRUE, <<1, 2>>))
       @@ 1 :> Pub(1, s_T, UnitStruct)
       @@ 2 :> Pub(2, s_internal, Module(FALSE, <<3>>))
       @@ 3 :> Pub(3, s_Q, UnitStruct),
          NoPaths, NoPaths)

\* pub trait Tr { type Hidden: PrivateBound; }  trait PrivateBound {}
Crate_Trait ==
    Crate(0 :> Pub(0, s_root, Module(TRUE, <<1, 2>>))
       @@ 1 :> Pub(1, s_Tr, Trait(<<3>>, NoGenerics, <<>>))
       @@ 2 :> Priv(2, s_PrivateBound, Trait(<<>>, NoGenerics, <<>>))
       @@ 3 :> Item(3, Some(s_Hidden), "Default",
                    AssocType(NoGenerics,
                              <<TraitBound(Path(s_PrivateBound, 2, None), <<>>)>>, None)),
          NoPaths, NoPaths)

\* pub use <something rustdoc gives no id>;  (a non-glob Use whose target is absent)
Crate_UseAbsent ==
    Crate(0 :> Pub(0, s_root, Module(TRUE, <<1, 2>>))
       @@ 1 :> Item(1, None, "Public", Use(s_Gone, s_Gone, None, FALSE))
       @@ 2 :> Pub(2, s_Foo, UnitStruct),
          NoPaths, NoPaths)

\* pub use Zed as Al;  use Priv as Zed;  struct Priv;  extern crate std;
\* pub fn g() -> std::String;  pub fn h(x: <an id rustdoc lists nowhere>)
Crate_Chain ==
    Crate(0 :> Pub(0, s_root, Module(TRUE, <<2, 3, 4, 5, 6, 7>>))
       @@ 2 :> Item(2, None, "Public", Use(s_Zed, s_Al, Some(3), FALSE))
       @@ 3 :> Item(3, None, "Crate", Use(s_Priv, s_Zed, Some(4), FALSE))
       @@ 4 :> Priv(4, s_Priv, UnitStruct)
       @@ 5 :> Item(5, None, "Crate", ExternCrate(s_std, None))
       @@ 6 :> Pub(6, s_g, Function(FunctionSignature(<<>>, Some(TypeOf(s_String, 11))),
                                    NoGenerics))
       @@ 7 :> Pub(7, s_h, Function(FunctionSignature(<<<<s_x, TypeOf(s_Gone, 12)>>>>, None),
                                    NoGenerics)),
          11 :> ItemSummary(2, <<s_std, s_String>>),
          2 :> ExternalCrate(s_std))

\* pub use other::*;  pub struct Beta;
\* mod other { pub use self::inner::*;  pub struct Alpha;
\*             mod inner { pub struct Beta;  struct Zed; } }
Crate_Nest ==
    Crate(0 :> Pub(0, s_root, Module(TRUE, <<1, 2, 8>>))
       @@ 1 :> Item(1, None, "Public", Use(s_other, s_other, Some(2), TRUE))
       @@ 2 :> Priv(2, s_other, Module(FALSE, <<3, 4, 5>>))
       @@ 3 :> Item(3, None, "Public", Use(s_inner, s_inner, Some(5), TRUE))
       @@ 4 :> Pub(4, s_Alpha, UnitStruct)
       @@ 5 :> Priv(5, s_inner, Module(FALSE, <<6, 7>>))
       @@ 6 :> Pub(6, s_Beta, UnitStruct)
       @@ 7 :> Priv(7, s_Zed, UnitStruct)
       @@ 8 :> Pub(8, s_Beta, UnitStruct),
          NoPaths, NoPaths)

\* pub struct Foo;  impl Foo { pub fn f() -> Bar }  struct Bar;
Crate_Impl ==
    Crate(0 :> Pub(0, s_root, Module(TRUE, <<1, 4>>))
       @@ 1 :> Pub(1, s_Foo, Struct(StructUnit, NoGenerics, <<2>>))
       @@ 2 :> Item(2, None, "Default", Impl(None, TypeOf(s_Foo, 1), NoGenerics, <<3>>))
       @@ 3 :> Pub(3, s_f, Function(FunctionSignature(<<>>, Some(TypeOf(s_Bar, 4))),
                                    NoGenerics))
       @@ 4 :> Priv(4, s_Bar, UnitStruct),
          NoPaths, NoPaths)

\* pub extern crate std;  pub use std::String;  pub use std as Al;
\* pub struct Foo;  pub fn g() -> std::String
Crate_Std ==
    Crate(0 :> Pub(0, s_root, Module(TRUE, <<1, 2, 3, 4, 5>>))
       @@ 1 :> Item(1, None, "Public", ExternCrate(s_std, None))
       @@ 2 :> Item(2, None, "Public", Use(s_String, s_String, Some(11), FALSE))
       @@ 3 :> Item(3, None, "Public", Use(s_std, s_Al, Some(1), FALSE))
       @@ 4 :> Pub(4, s_Foo, UnitStruct)
       @@ 5 :> Pub(5, s_g, Function(FunctionSignature(<<>>, Some(TypeOf(s_String, 11))),
                                    NoGenerics)),
          11 :> ItemSummary(2, <<s_std, s_String>>),
          2 :> ExternalCrate(s_std))

\* the package my-lib:  pub struct Foo;
Crate_MyLib ==
    Crate(0 :> Pub(0, s_my_lib, Module(TRUE, <<1>>))
       @@ 1 :> Pub(1, s_Foo, UnitStruct),
          NoPaths, NoPaths)

\* pub extern crate Gone;  (a package that cannot be built)
\* pub fn h(x: <an id rustdoc lists nowhere>, x: Priv);  struct Priv;  pub struct Foo;
Crate_Fail ==
    Crate(0 :> Pub(0, s_root, Module(TRUE, <<1, 2, 3, 4>>))
       @@ 1 :> Item(1, None, "Public", ExternCrate(s_Gone, None))
       @@ 2 :> Pub(2, s_h, Function(FunctionSignature(<<<<s_x, TypeOf(s_Gone, 12)>>,
                                                        <<s_x, TypeOf(s_Priv, 3)>>>>, None),
                                    NoGenerics))
       @@ 3 :> Priv(3, s_Priv, UnitStruct)
       @@ 4 :> Pub(4, s_Foo, UnitStruct),
          NoPaths, NoPaths)

\* a dependency:  pub use other::*;  pub mod other { pub use super::*;  pub struct T; }
Crate_DepCycle ==
    Crate(0 :> Pub(0, s_dep, Module(TRUE, <<1, 2>>))
       @@ 1 :> Item(1, None, "Public", Use(s_other, s_other, Some(2), TRUE))
       @@ 2 :> Pub(2, s_other, Module(FALSE, <<3, 4>>))
       @@ 3 :> Item(3, None, "Public", Use(s_dep, s_dep, Some(0), TRUE))
       @@ 4 :> Pub(4, s_T, UnitStruct),
          NoPaths, NoPaths)

\* pub fn f() -> Priv;  pub fn g() -> Priv;  struct Priv;
Crate_TwoPaths ==
    Crate(0 :> Pub(0, s_root, Module(TRUE, <<1, 2, 3>>))
       @@ 1 :> Pub(1, s_f, Function(FunctionSignature(<<>>, Some(TypeOf(s_Priv, 3))),
                                    NoGenerics))
       @@ 2 :> Pub(2, s_g, Function(FunctionSignature(<<>>, Some(TypeOf(s_Priv, 3))),
                                    NoGenerics))
       @@ 3 :> Priv(3, s_Priv, UnitStruct),
          NoPaths, NoPaths)

\* extern crate dep;  struct Priv;  pub struct Foo;
Crate_Skip ==
    Crate(0 :> Pub(0, s_root, Module(TRUE, <<1, 2, 3>>))
       @@ 1 :> Item(1, None, "Crate", ExternCrate(s_dep, None))
       @@ 2 :> Priv(2, s_Priv, UnitStruct)
       @@ 3 :> Pub(3, s_Foo, UnitStruct),
          NoPaths, NoPaths)

\* pub fn f() -> Priv;  struct Priv { pub bar: Bar }  struct Bar;
Crate_Deep ==
    Crate(0 :> Pub(0, s_root, Module(TRUE, <<1, 2, 4>>))
       @@ 1 :> Pub(1, s_f, Function(FunctionSignature(<<>>, Some(TypeOf(s_Priv, 2))),
                                    NoGenerics))
       @@ 2 :> Priv(2, s_Priv, Struct(StructPlain(<<3>>), NoGenerics, <<>>))
       @@ 3 :> Pub(3, s_bar, StructField(TypeOf(s_Bar, 4)))
       @@ 4 :> Priv(4, s_Bar, UnitStruct),
          NoPaths, NoPaths)

\* pub struct Foo;  trait Tr {}  struct Bar;  trait PrivateBound {}
\* impl<T: PrivateBound> Tr for Foo<Bar> { fn f() }
Crate_TraitImpl ==
    Crate(0 :> Pub(0, s_root, Module(TRUE, <<1, 4, 5, 6>>))
       @@ 1 :> Pub(1, s_Foo, Struct(StructUnit, NoGenerics, <<2>>))
       @@ 2 :> Item(2, None, "Default",
                    Impl(Some(Path(s_Tr, 4, None)),
                         ResolvedPath(Path(s_Foo, 1,
                             Some(AngleBracketed(<<[t |-> "Type", type_ |-> TypeOf(s_Bar, 5)]>>,
                                                 <<>>)))),
                         Generics(<<[t |-> "Type",
                                     bounds |-> <<TraitBound(Path(s_PrivateBound, 6, None),
                                                             <<>>)>>,
                                     default |-> None]>>, <<>>),
                         <<3>>))
       @@ 3 :> Priv(3, s_f, Function(FunctionSignature(<<>>, None), NoGenerics))
       @@ 4 :> Priv(4, s_Tr, Trait(<<>>, NoGenerics, <<>>))
       @@ 5 :> Priv(5, s_Bar, UnitStruct)
       @@ 6 :> Priv(6, s_PrivateBound, Trait(<<>>, NoGenerics, <<>>)),
          NoPaths, NoPaths)

\* pub trait Al = ...;
Crate_TraitAlias ==
    Crate(0 :> Pub(0, s_root, Module(TRUE, <<1>>))
       @@ 1 :> Pub(1, s_Al, TraitAlias),
          NoPaths, NoPaths)

\* pub fn f() -> *const T;  extern { type T; }
Crate_ExternType ==
    Crate(0 :> Pub(0, s_root, Module(TRUE, <<1, 2>>))
       @@ 1 :> Pub(1, s_f, Function(FunctionSignature(<<>>,
                                        Some(RawPointer(TypeOf(s_T, 2)))),
                                    NoGenerics))
       @@ 2 :> Priv(2, s_T, ExternType),
          NoPaths, NoPaths)

\* pub extern crate dep as Al;
Crate_Rename ==
    Crate(0 :> Pub(0, s_root, Module(TRUE, <<1>>))
       @@ 1 :> Item(1, None, "Public", ExternCrate(s_dep, Some(s_Al))),
          NoPaths, NoPaths)

\* mod inner { pub struct Zed; }  pub use inner::Zed as Beta;
Crate_UseAs ==
    Crate(0 :> Pub(0, s_root, Module(TRUE, <<1, 2>>))
       @@ 1 :> Priv(1, s_inner, Module(FALSE, <<3>>))
       @@ 2 :> Item(2, None, "Public",
                    Use(s_inner \o s_colons \o s_Zed, s_Beta, Some(3), FALSE))
       @@ 3 :> Pub(3, s_Zed, UnitStruct),
          NoPaths, NoPaths)

\* pub struct Beta;  pub use other::*;  pub mod other { pub struct Beta; }
Crate_Collide ==
    Crate(0 :> Pub(0, s_root, Module(TRUE, <<1, 2, 3>>))
       @@ 1 :> Pub(1, s_Beta, UnitStruct)
       @@ 2 :> Item(2, None, "Public", Use(s_other, s_other, Some(3), TRUE))
       @@ 3 :> Pub(3, s_other, Module(FALSE, <<4>>))
       @@ 4 :> Pub(4, s_Beta, UnitStruct),
          NoPaths, NoPaths)

\* pub fn f() -> Al::T;  pub fn g() -> dep::__private::Q;
\* pub fn h() -> dep::internal::__private::Q;  pub fn x() -> dep::Gone::__private;
\* every path of the external crate dep
Crate_Private ==
    Crate(0 :> Pub(0, s_root, Module(TRUE, <<1, 2, 3, 4>>))
       @@ 1 :> Pub(1, s_f, Function(FunctionSignature(<<>>, Some(TypeOf(s_T, 10))),
                                    NoGenerics))
       @@ 2 :> Pub(2, s_g, Function(FunctionSignature(<<>>, Some(TypeOf(s_Q, 11))),
                                    NoGenerics))
       @@ 3 :> Pub(3, s_h, Function(FunctionSignature(<<>>, Some(TypeOf(s_Q, 12))),
                                    NoGenerics))
       @@ 4 :> Pub(4, s_x, Function(FunctionSignature(<<>>, Some(TypeOf(s_Q, 13))),
                                    NoGenerics)),
          10 :> ItemSummary(1, <<s_Al, s_T>>)
       @@ 11 :> ItemSummary(1, <<s_dep, s___private, s_Q>>)
       @@ 12 :> ItemSummary(1, <<s_dep, s_internal, s___private, s_Q>>)
       @@ 13 :> ItemSummary(1, <<s_dep, s_Gone, s___private>>),
          1 :> ExternalCrate(s_dep))

\* pub fn f() -> T, the path summary of T holding no segment
Crate_Empty ==
    Crate(0 :> Pub(0, s_root, Module(TRUE, <<1>>))
       @@ 1 :> Pub(1, s_f, Function(FunctionSignature(<<>>, Some(TypeOf(s_T, 10))),
                                    NoGenerics)),
          10 :> ItemSummary(1, <<>>),
          1 :> ExternalCrate(s_dep))

\* a rustdoc JSON of `dep` in which no module is marked as the crate root
Crate_NoRoot ==
    Crate(0 :> Pub(0, s_dep, Module(FALSE, <<1>>))
       @@ 1 :> Pub(1, s_T, UnitStruct),
          NoPaths, NoPaths)

\* pub extern crate dep;
Crate_Extern ==
    Crate(0 :> Pub(0, s_root, Module(TRUE, <<1>>))
       @@ 1 :> Item(1, None, "Public", ExternCrate(s_dep, None)),
          NoPaths, NoPaths)

\* pub struct Foo;  pub fn f(x: Beta, x: Zed, x: Alpha) -> Foo;
\* struct Beta;  struct Zed;  struct Alpha;
Crate_Sig ==
    Crate(0 :> Pub(0, s_root, Module(TRUE, <<1, 2, 3, 4, 5>>))
       @@ 1 :> Pub(1, s_Foo, UnitStruct)
       @@ 2 :> Pub(2, s_f, Function(FunctionSignature(
                                        <<<<s_x, TypeOf(s_Beta, 3)>>,
                                          <<s_x, TypeOf(s_Zed, 4)>>,
                                          <<s_x, TypeOf(s_Alpha, 5)>>>>,
                                        Some(TypeOf(s_Foo, 1))),
                                    NoGenerics))
       @@ 3 :> Priv(3, s_Beta, UnitStruct)
       @@ 4 :> Priv(4, s_Zed, UnitStruct)
       @@ 5 :> Priv(5, s_Alpha, UnitStruct),
          NoPaths, NoPaths)

\* pub fn f(x: impl Al, x: Priv);  trait Al = ...;  struct Priv;
Crate_Alias ==
    Crate(0 :> Pub(0, s_root, Module(TRUE, <<1, 2, 3>>))
       @@ 1 :> Pub(1, s_f, Function(FunctionSignature(
                                        <<<<s_x, ImplTrait(<<TraitBound(Path(s_Al, 2, None),
                                                                        <<>>)>>)>>,
                                          <<s_x, TypeOf(s_Priv, 3)>>>>,
                                        None),
                                    NoGenerics))
       @@ 2 :> Priv(2, s_Al, TraitAlias)
       @@ 3 :> Priv(3, s_Priv, UnitStruct),
          NoPaths, NoPaths)

ProbesDep == {<<s_dep, <<s_T>>>>, <<s_dep, <<s_internal, s_Q>>>>, <<s_std, <<>>>>}

\* calls that name a standard library
ProbesStd == {<<s_std, <<>>>>, <<s_core, <<>>>>, <<s_alloc, <<>>>>, <<s_proc_macro, <<>>>>,
              <<s_test, <<>>>>}

Inputs(debug_assertions) ==
    { World("FooBar", s_root :> Crate_FooBar, debug_assertions, {<<s_root, <<s_Foo>>>>}),
      World("Zed", s_root :> Crate_Zed, debug_assertions, {<<s_root, <<s_inner, s_Zed>>>>}),
      World("Glob", s_root :> Crate_Glob, debug_assertions, {<<s_root, <<s_Alpha>>>>}),
      World("DepT", s_root :> Crate_DepT @@ s_dep :> Crate_Dep, debug_assertions, ProbesDep),
      World("DepQ", s_root :> Crate_DepQ @@ s_dep :> Crate_Dep, debug_assertions, ProbesDep),
      World("Trait", s_root :> Crate_Trait, debug_assertions, {<<s_root, <<s_Tr>>>>}),
      World("UseAbsent", s_root :> Crate_UseAbsent, debug_assertions,
            {<<s_root, <<s_Gone>>>>}),
      World("Sig", s_root :> Crate_Sig, debug_assertions, {<<s_root, <<s_f>>>>}),
      World("Alias", s_root :> Crate_Alias, debug_assertions, {<<s_root, <<s_Al>>>>}),
      World("Chain", s_root :> Crate_Chain, debug_assertions, {<<s_root, <<s_Al>>>>}),
      World("Nest", s_root :> Crate_Nest, debug_assertions,
            {<<s_root, <<s_Zed>>>>, <<s_root, <<s_other, s_Beta>>>>}),
      World("Impl", s_root :> Crate_Impl, debug_assertions, {<<s_root, <<s_Foo>>>>}),
      World("Std", s_root :> Crate_Std, debug_assertions,
            {<<s_root, <<s_Foo>>>>, <<s_root, <<s_String>>>>}),
      [World("Hyphen", s_my_hy_lib :> Crate_MyLib, debug_assertions,
             {<<s_my_hy_lib, <<s_Foo>>>>, <<s_my_lib, <<s_Foo>>>>})
         EXCEPT !.root_package = s_my_hy_lib],
      World("Fail", s_root :> Crate_Fail, debug_assertions, {<<s_root, <<s_Foo>>>>}),
      World("Cycle", s_root :> Crate_DepT @@ s_dep :> Crate_DepCycle, debug_assertions,
            {<<s_dep, <<s_T>>>>}),
      World("TwoPaths", s_root :> Crate_TwoPaths, debug_assertions, {<<s_root, <<s_f>>>>}),
      World("Skip", s_root :> Crate_Skip @@ s_dep :> Crate_Dep, debug_assertions,
            {<<s_root, <<s_Foo>>>>}),
      World("Private", s_root :> Crate_Private @@ s_dep :> Crate_Dep, debug_assertions,
            {<<s_dep, <<s_internal, s___private>>>>}),
      World("Empty", s_root :> Crate_Empty @@ s_dep :> Crate_Dep, debug_assertions,
            {<<s_dep, <<s_T>>>>}),
      World("Collide", s_root :> Crate_Collide, debug_assertions,
            {<<s_root, <<s_Beta>>>>}),
      World("TraitImpl", s_root :> Crate_TraitImpl, debug_assertions,
            {<<s_root, <<s_Foo>>>>}),
      World("TraitAlias", s_root :> Crate_TraitAlias, debug_assertions,
            {<<s_root, <<s_Al>>>>}),
      World("ExternType", s_root :> Crate_ExternType, debug_assertions,
            {<<s_root, <<s_f>>>>}),
      World("Rename", s_root :> Crate_Rename @@ s_dep :> Crate_Dep, debug_assertions,
            {<<s_dep, <<s_T>>>>}),
      World("UseAs", s_root :> Crate_UseAs, debug_assertions, {<<s_root, <<s_Zed>>>>}),
      World("NoRoot", s_root :> Crate_Extern @@ s_dep :> Crate_NoRoot, debug_assertions,
            {<<s_dep, <<s_T>>>>, <<s_Gone, <<>>>>}),
      World("Deep", s_root :> Crate_Deep, debug_assertions, {<<s_root, <<s_f>>>>}),
      World("Extern", s_root :> Crate_Extern @@ s_dep :> Crate_Dep, debug_assertions,
            ProbesDep \cup ProbesStd) }

Worlds == Inputs(TRUE) \cup Inputs(FALSE)


\* ------------------------------------------------------------- the actions
s_header == <<118, 105, 115, 105, 98, 108, 101, 32, 98, 117, 116, 32, 110, 111, 116, 32, 105, 109, 112, 111, 114, 116, 97, 98, 108, 101, 58>>  \* "visible but not importable:"
s_dash == <<45, 32>>  \* "- "

Gnow == G(crate_lookup, crates, builds)

\* the orders in which a HashMap can hand out the keys S
RECURSIVE Perms(_)
Perms(S) ==
    IF S = {} THEN {<<>>}
    ELSE UNION {{<<x>> \o q : q \in Perms(S \ {x})} : x \in S}

Init ==
    /\ world \in Worlds
    /\ crate_lookup = EmptyMap
    /\ crates = <<>>
    /\ builds = <<>>
    /\ pc = "start"
    /\ bfs_link = "none"
    /\ queue = <<>>
    /\ hash = EmptyMap
    /\ importable = EmptyMap
    /\ visible = EmptyMap
    /\ stdout = <<>>
    /\ stderr = 0
    /\ last = [op |-> "none", n |-> 0]

SetG(g) ==
    /\ crate_lookup' = g.crate_lookup
    /\ crates' = g.crates
    /\ builds' = g.builds

\* main up to the first loop iteration of bfs(link_importable, None, true)
MainStarted(root_id) ==
    /\ SetG(root_id.g)
    /\ IF root_id.r.tag = "Ok"
       THEN /\ pc' = "bfs"
            /\ bfs_link' = "importable"
            /\ queue' = <<root_id.r.val>>
            /\ hash' = insert(EmptyMap, root_id.r.val,
                              replace(root_package, ch_hyphen, ch_underscore))
       ELSE /\ pc' = IF Dies(root_id.r) THEN "panicked" ELSE "failed"
            /\ UNCHANGED <<bfs_link, queue, hash>>

MainStart ==
    /\ pc = "start"
    /\ MainStarted(resolve_crate(Gnow, root_package))
    /\ UNCHANGED <<world, importable, visible, stdout, stderr, last>>

\* one iteration of the outer loop of bfs
BfsStepped(it) ==
    /\ SetG(it.g)
    /\ IF it.r.tag = "Ok"
       THEN /\ hash' = it.r.val.hash
            /\ queue' = it.r.val.queue
            /\ stderr' = it.r.val.stderr
            /\ pc' = pc
       ELSE /\ pc' = IF Dies(it.r) THEN "panicked" ELSE "failed"
            /\ UNCHANGED <<hash, queue, stderr>>

BfsStep ==
    /\ pc = "bfs"
    /\ queue # <<>>
    /\ BfsStepped(bfs_iteration(Gnow, bfs_link, Loc(hash, queue, stderr),
                                bfs_link = "importable"))
    /\ UNCHANGED <<world, bfs_link, importable, visible, stdout, last>>

\* the first bfs returns; main calls bfs(link_visible, Some(&importable), false)
ImportableDone ==
    /\ pc = "bfs"
    /\ bfs_link = "importable"
    /\ queue = <<>>
    /\ importable' = hash
    /\ hash' = hash
    /\ queue' \in Perms(DOMAIN hash)
    /\ bfs_link' = "visible"
    /\ UNCHANGED <<world, crate_lookup, crates, builds, pc, visible, stdout, stderr, last>>

\* the second bfs returns
VisibleDone ==
    /\ pc = "bfs"
    /\ bfs_link = "visible"
    /\ queue = <<>>
    /\ visible' = hash
    /\ pc' = "report"
    /\ UNCHANGED <<world, crate_lookup, crates, builds, bfs_link, queue, hash,
                   importable, stdout, stderr, last>>

\* main prints the report
Report ==
    /\ pc = "report"
    /\ IF report_panics(Gnow, visible, importable)
       THEN /\ stdout' = <<s_header>>
            /\ pc' = "panicked"
       ELSE /\ LET paths == report_paths(Gnow, visible, importable) IN
               stdout' = <<s_header>> \o [i \in DOMAIN paths |-> s_dash \o paths[i]]
            /\ pc' = "done"
    /\ UNCHANGED <<world, crate_lookup, crates, builds, bfs_link, queue, hash,
                   importable, visible, stderr, last>>

Next == MainStart \/ BfsStep \/ ImportableDone \/ VisibleDone \/ Report

Spec == Init /\ [][Next]_vars

\* ---------------------------------- the GraphCache operations called directly
\* crate names a caller can pass
CrateNames == DOMAIN world.packages \cup {p[1] : p \in world.probes}

\* ids inside the registry: every id a loaded crate's JSON mentions, and one it does not
UnknownIds == {99}
KnownIds ==
    UNION {{AbsId(i - 1, k) : k \in (DOMAIN crates[i].rustdoc_json.index
                                      \cup DOMAIN crates[i].rustdoc_json.paths
                                      \cup UnknownIds)} : i \in DOMAIN crates}

Returned(op, arg, res) ==
    /\ SetG(res.g)
    /\ last' = [op |-> op, n |-> last.n + 1, arg |-> arg, r |-> res.r]
    /\ pc' = IF Dies(res.r) THEN "panicked" ELSE "calls"
    /\ UNCHANGED <<world, bfs_link, queue, hash, importable, visible, stdout, stderr>>

CallResolveCrate ==
    /\ pc \in {"start", "calls"}
    /\ last.n < MaxCalls
    /\ \E crate_name \in CrateNames :
          Returned("resolve_crate", <<crate_name>>, resolve_crate(Gnow, crate_name))

CallResolve ==
    /\ pc \in {"start", "calls"}
    /\ last.n < MaxCalls
    /\ \E id \in KnownIds, filter_public \in BOOLEAN :
          Returned("resolve", <<id, filter_public>>,
                   resolve(Gnow, id, filter_public, MaxDepth))

CallResolve2 ==
    /\ pc \in {"start", "calls"}
    /\ last.n < MaxCalls
    /\ \E p \in world.probes :
          Returned("resolve2", p, resolve2(Gnow, p[1], p[2]))

NextCalls == CallResolveCrate \/ CallResolve \/ CallResolve2

SpecCalls == Init /\ [][NextCalls]_vars

\* the program run, or the GraphCache operations called directly
NextAll == Next \/ NextCalls

SpecAll == Init /\ [][NextAll]_vars


\* =============================================================== properties
\* ------------------------------------------------- vocabulary of the claims
\* the root crate is the first crate the registry loads (crate index 0)
RootLoaded == crates # <<>>
RootJson == crates[1].rustdoc_json
RootIndex == RootJson.index
RootIds == DOMAIN RootIndex
RootModule == RootIndex[crates[1].root_module]
RootId(k) == AbsId(0, k)
RootLabel == replace(world.root_package, ch_hyphen, ch_underscore)

\* both traversals have returned
Traversed == pc \in {"report", "done"}
\* the first traversal has returned
ImportableComputed == (pc = "bfs" /\ bfs_link = "visible") \/ Traversed

\* the lines of the report after its header
ReportLines == {i \in DOMAIN stdout : i > 1}
Printed(label) == \E i \in ReportLines : stdout[i] = s_dash \o label

\* lexicographic order on strings, stated without recursion
LexLe(a, b) ==
    \/ (Len(a) <= Len(b) /\ \A i \in DOMAIN a : a[i] = b[i])
    \/ \E k \in DOMAIN a \cap DOMAIN b :
          /\ a[k] < b[k]
          /\ \A i \in 1..(k - 1) : a[i] = b[i]

TypeLikeKinds == {"Union", "Struct", "Enum", "Trait", "TypeAlias"}

\* ------------------------------------------------------------------ C1
\* <<foo, field, bar>>: the root module declares a public struct foo with a
\* public field `field` of type bar, bar being a non-public struct declared in
\* the root module that no `use` item re-exports.
FooBarCases ==
    {c \in RootIds \X RootIds \X RootIds :
        /\ c[1] \in Range(RootModule.inner.items)
        /\ c[3] \in Range(RootModule.inner.items)
        /\ RootIndex[c[1]].visibility = "Public"
        /\ RootIndex[c[1]].inner.kind = "Struct"
        /\ RootIndex[c[1]].inner.skind.k = "Plain"
        /\ c[2] \in Range(RootIndex[c[1]].inner.skind.fields)
        /\ RootIndex[c[2]].visibility = "Public"
        /\ RootIndex[c[2]].inner.kind = "StructField"
        /\ RootIndex[c[3]].visibility # "Public"
        /\ RootIndex[c[3]].inner.kind = "Struct"
        /\ is_some(RootIndex[c[3]].name)
        /\ RootIndex[c[2]].inner.type_ = TypeOf(unwrap(RootIndex[c[3]].name), c[3])
        /\ \A u \in DOMAIN RootIndex : RootIndex[u].inner.kind # "Use"}

\* C1: for `pub struct Foo { pub bar: Bar }` with a private `struct Bar;` in the
\* root crate, once the program has printed its report Bar's canonical id is a
\* key of the visible map, is not a key of the importable map, and Bar's visible
\* label is one of the printed lines.
C1_PrivateFieldTypeIsReported ==
    pc = "done" =>
        \A c \in FooBarCases :
            /\ RootId(c[3]) \in DOMAIN visible
            /\ RootId(c[3]) \notin DOMAIN importable
            /\ Printed(visible[RootId(c[3])])

C1_Witness ==
    /\ pc = "done"
    /\ \E c \in FooBarCases :
          /\ RootId(c[1]) \in DOMAIN importable
          /\ RootId(c[3]) \in DOMAIN visible
          /\ Printed(RootLabel \o s_colons \o unwrap(RootIndex[c[1]].name)
                     \o s_colons \o unwrap(RootIndex[c[2]].name)
                     \o s_colons \o unwrap(RootIndex[c[3]].name))

\* ------------------------------------------------------------------ C2
\* the ids the report is about
Reportable ==
    {id \in DOMAIN visible :
        /\ id \notin DOMAIN importable
        /\ unwrap(graph_index(Gnow, id)).inner.kind \in TypeLikeKinds}

\* C2: a finished report is the header followed by exactly the labels of the ids
\* that are keys of visible, are not keys of importable and whose item is a
\* Union, Struct, Enum, Trait or TypeAlias: one line per such id, each line
\* "- " and the id's visible label, the lines in lexicographic order.
C2_ReportIsSortedLeaks ==
    pc = "done" =>
        /\ stdout # <<>>
        /\ stdout[1] = s_header
        /\ Cardinality(ReportLines) = Cardinality(Reportable)
        /\ \A id \in Reportable :
              Cardinality({i \in ReportLines : stdout[i] = s_dash \o visible[id]})
                = Cardinality({j \in Reportable : visible[j] = visible[id]})
        /\ \A i \in ReportLines, j \in ReportLines :
              i < j => LexLe(SubSeq(stdout[i], 3, Len(stdout[i])),
                             SubSeq(stdout[j], 3, Len(stdout[j])))

\* a report of three lines whose ids were labelled in an order that is not sorted,
\* next to importable type-like items and visible functions that are left out
C2_Witness ==
    /\ pc = "done"
    /\ Cardinality(ReportLines) = 3
    /\ \E a \in Reportable, b \in Reportable :
          a.item_id < b.item_id /\ ~LexLe(visible[a], visible[b])
    /\ \E id \in DOMAIN importable :
          unwrap(graph_index(Gnow, id)).inner.kind \in TypeLikeKinds
    /\ \E id \in DOMAIN visible :
          unwrap(graph_index(Gnow, id)).inner.kind \notin TypeLikeKinds

\* ------------------------------------------------------------------ C3
\* C3: once the importable map is computed, the map of the second traversal
\* (while it runs, and the visible map it returns) has every key of importable,
\* with the label importable gives it.
C3_ImportableWithinVisible ==
    /\ (pc = "bfs" /\ bfs_link = "visible") =>
          \A id \in DOMAIN importable :
              id \in DOMAIN hash /\ hash[id] = importable[id]
    /\ Traversed =>
          \A id \in DOMAIN importable :
              id \in DOMAIN visible /\ visible[id] = importable[id]

\* the second traversal reached an importable item again, through a signature,
\* and added items of its own
C3_Witness ==
    /\ Traversed
    /\ \E f \in DOMAIN importable, t \in DOMAIN importable :
          /\ f.crate_idx = 0 /\ t.crate_idx = 0
          /\ unwrap(graph_index(Gnow, f)).inner.kind = "Function"
          /\ unwrap(graph_index(Gnow, f)).inner.sig.output
               = Some(TypeOf(unwrap(unwrap(graph_index(Gnow, t)).name), t.item_id))
          /\ visible[t] = importable[t]
    /\ DOMAIN visible # DOMAIN importable

\* ------------------------------------------------------------------ C4
\* the item an id names, if its crate is loaded and its index has the id
ItemOf(id) ==
    IF id.crate_idx + 1 \in DOMAIN crates THEN graph_index(Gnow, id) ELSE None

IsCanonical(id) ==
    /\ is_some(ItemOf(id))
    /\ unwrap(ItemOf(id)).inner.kind # "ExternCrate"
    /\ ~(unwrap(ItemOf(id)).inner.kind = "Use" /\ ~unwrap(ItemOf(id)).inner.is_glob)

\* the ids a resolve cache holds
ResolveCacheIds(i) ==
    {unwrap(crates[i].resolve_cache[k]).id :
        k \in {k \in DOMAIN crates[i].resolve_cache :
                  /\ is_some(crates[i].resolve_cache[k])
                  /\ unwrap(crates[i].resolve_cache[k]).e = "Id"}}

\* the ids a namespace cache holds, as module keys and as entries
ImportCacheIds(i) ==
    UNION {{AbsId(i - 1, k - 1)} \cup Range(unwrap(crates[i].import_cache[k])) :
              k \in {k \in DOMAIN crates[i].import_cache :
                        is_some(crates[i].import_cache[k])}}

\* every CanonId the registry and the traversals hold
CanonIds ==
    UNION {ResolveCacheIds(i) \cup ImportCacheIds(i) : i \in DOMAIN crates}
    \cup DOMAIN hash \cup Range(queue) \cup DOMAIN importable \cup DOMAIN visible

\* C4: every canonical id produced (cached by resolve, held by a namespace
\* cache, or used as a key of a traversal's map) names an item present in its
\* crate's index whose kind is neither ExternCrate nor a non-glob Use, for all
\* inputs, a non-glob Use without a target included.
C4_CanonicalIdsAreDeclarations == \A id \in CanonIds : IsCanonical(id)

\* ------------------------------------------------------------------ C5
\* resolve repeated on the result `first` of resolve(x)
C5_Repeated(x, filter_public, first) ==
    CASE first.r.tag = "Ok" ->
            \A again \in BOOLEAN :
                resolve(first.g, first.r.val, again, MaxDepth).r = Ok(first.r.val)
      [] first.r.tag = "Ignore" ->
            resolve(first.g, x, filter_public, MaxDepth).r = Ignore
      [] OTHER -> TRUE

\* C5: in every reachable state of the registry and its caches, for every id x
\* of a loaded crate, if resolve(x) returns c then resolve(c) returns c, and if
\* resolve(x) is Ignore then resolve(x) is Ignore again.
C5_ResolveIsIdempotent ==
    \A x \in KnownIds, filter_public \in BOOLEAN :
        C5_Repeated(x, filter_public, resolve(Gnow, x, filter_public, MaxDepth))

\* a caller got a canonical id other than the id it asked about, in a registry
\* whose cache also holds an ignored id
C5_Witness ==
    /\ last.op = "resolve"
    /\ last.r.tag = "Ok"
    /\ last.r.val # last.arg[1]
    /\ IsCanonical(last.r.val)
    /\ \E i \in DOMAIN crates : \E k \in DOMAIN crates[i].resolve_cache :
          /\ is_some(crates[i].resolve_cache[k])
          /\ unwrap(crates[i].resolve_cache[k]).e = "Ignore"

\* ------------------------------------------------------------------ C6
\* <<inner, use, zed>>: the root module holds exactly a non-public module
\* `inner` and a public `use inner::zed`, zed being the one item of `inner`,
\* a public struct.
ZedCases ==
    {c \in RootIds \X RootIds \X RootIds :
        /\ Range(RootModule.inner.items) = {c[1], c[2]}
        /\ RootIndex[c[1]].inner.kind = "Module"
        /\ RootIndex[c[1]].visibility # "Public"
        /\ RootIndex[c[1]].inner.items = <<c[3]>>
        /\ RootIndex[c[2]].inner.kind = "Use"
        /\ RootIndex[c[2]].visibility = "Public"
        /\ ~RootIndex[c[2]].inner.is_glob
        /\ RootIndex[c[2]].inner.id = Some(c[3])
        /\ RootIndex[c[3]].inner.kind = "Struct"
        /\ RootIndex[c[3]].visibility = "Public"
        /\ RootIndex[c[3]].name = Some(RootIndex[c[2]].inner.name)}

\* C6: for `mod inner { pub struct Zed; } pub use inner::Zed;`, resolving the
\* Use item's id and resolving Zed's id both give Zed's id, in every state of
\* the run; when the run has finished that id is a key of importable labelled
\* <root>::Zed and the report has no line.
C6_ReexportIsImportable ==
    /\ RootLoaded =>
          \A c \in ZedCases :
              /\ resolve(Gnow, RootId(c[2]), TRUE, MaxDepth).r = Ok(RootId(c[3]))
              /\ resolve(Gnow, RootId(c[3]), TRUE, MaxDepth).r = Ok(RootId(c[3]))
    /\ pc = "done" =>
          \A c \in ZedCases :
              /\ RootId(c[3]) \in DOMAIN importable
              /\ importable[RootId(c[3])]
                   = RootLabel \o s_colons \o unwrap(RootIndex[c[3]].name)
              /\ stdout = <<s_header>>

C6_Witness ==
    /\ pc = "done"
    /\ \E c \in ZedCases :
          /\ RootId(c[3]) \in DOMAIN importable
          /\ RootId(c[2]) \notin DOMAIN importable
          /\ RootId(c[1]) \notin DOMAIN visible

\* ------------------------------------------------------------------ C7
\* <<other, use, item>>: the root module holds a public `use other::*`, `other`
\* being a non-public module of the root crate that declares the public named
\* item.
GlobCases ==
    {c \in RootIds \X RootIds \X RootIds :
        /\ c[2] \in Range(RootModule.inner.items)
        /\ RootIndex[c[2]].inner.kind = "Use"
        /\ RootIndex[c[2]].visibility = "Public"
        /\ RootIndex[c[2]].inner.is_glob
        /\ RootIndex[c[2]].inner.id = Some(c[1])
        /\ RootIndex[c[1]].inner.kind = "Module"
        /\ RootIndex[c[1]].visibility # "Public"
        /\ c[3] \in Range(RootIndex[c[1]].inner.items)
        /\ RootIndex[c[3]].visibility = "Public"
        /\ is_some(RootIndex[c[3]].name)}

\* C7: for `pub use other::*` with a private module `other`, every public named
\* item declared in `other` is a key of the importable map the first traversal
\* returns, labelled <root>::<name>.
C7_GlobItemsAreImportable ==
    ImportableComputed =>
        \A c \in GlobCases :
            /\ RootId(c[3]) \in DOMAIN importable
            /\ importable[RootId(c[3])]
                 = RootLabel \o s_colons \o unwrap(RootIndex[c[3]].name)

\* ------------------------------------------------------------- C8 and C9
\* the public functions of the root module whose return type is a path to an
\* id of another crate: <<f, ext>>, in a root crate without `use` and
\* `extern crate` items
ExternalIds == DOMAIN RootJson.paths
PackageItemIds == UNION {DOMAIN world.packages[n].index : n \in DOMAIN world.packages}
ExternalReturns ==
    {c \in RootIds \X ExternalIds :
        /\ c[1] \in Range(RootModule.inner.items)
        /\ RootIndex[c[1]].visibility = "Public"
        /\ RootIndex[c[1]].inner.kind = "Function"
        /\ is_some(RootIndex[c[1]].inner.sig.output)
        /\ unwrap(RootIndex[c[1]].inner.sig.output).t = "ResolvedPath"
        /\ unwrap(RootIndex[c[1]].inner.sig.output).path.id = c[2]
        /\ c[2] \notin RootIds
        /\ \A u \in RootIds : RootIndex[u].inner.kind \notin {"Use", "ExternCrate"}}

PathOf(ext) == RootJson.paths[ext].path
\* the rustdoc JSON of the dependency an external path starts in
DepJson(ext) == world.packages[PathOf(ext)[1]]
DepRoot(ext) == DepJson(ext).index[CHOOSE k \in crate_roots(DepJson(ext).index) : TRUE]
\* the public items called `name` among the item ids `items` of the dependency
DepNamed(ext, items, name) ==
    {k \in Range(items) : /\ DepJson(ext).index[k].name = Some(name)
                          /\ DepJson(ext).index[k].visibility = "Public"}
\* the id the registry gives item k of the dependency
DepId(ext, k) == AbsId(crate_lookup[PathOf(ext)[1]], k)

\* <<f, ext, t>>: `pub fn f() -> dep::T`, T a public struct at the root of dep
DepTCases ==
    {c \in RootIds \X ExternalIds \X PackageItemIds :
        /\ <<c[1], c[2]>> \in ExternalReturns
        /\ Len(PathOf(c[2])) = 2
        /\ PathOf(c[2])[1] \in DOMAIN world.packages
        /\ c[3] \in DepNamed(c[2], DepRoot(c[2]).inner.items, PathOf(c[2])[2])
        /\ DepJson(c[2]).index[c[3]].inner.kind = "Struct"}

\* C8 as the specification states it: T's canonical id is a key of importable,
\* and T is not printed.
C8_DependencyTypeIsImportable ==
    pc = "done" =>
        \A c \in DepTCases :
            /\ DepId(c[2], c[3]) \in DOMAIN importable
            /\ DepId(c[2], c[3]) \in DOMAIN visible
                  => ~Printed(visible[DepId(c[2], c[3])])

\* C8: for `pub fn f() -> dep::T`, T public at the root of the dependency dep
\* and the root crate re-exporting neither, T's canonical id is not a key of
\* importable; it is a key of visible, labelled <root>::f::T, and that label is
\* printed in the report.
C8_DependencyTypeIsReported ==
    pc = "done" =>
        \A c \in DepTCases :
            /\ PathOf(c[2])[1] \in DOMAIN crate_lookup
            /\ DepId(c[2], c[3]) \notin DOMAIN importable
            /\ DepId(c[2], c[3]) \in DOMAIN visible
            /\ visible[DepId(c[2], c[3])]
                 = RootLabel \o s_colons \o unwrap(RootIndex[c[1]].name)
                     \o s_colons \o PathOf(c[2])[2]
            /\ Printed(visible[DepId(c[2], c[3])])

C8_Witness ==
    /\ pc = "done"
    /\ \E c \in DepTCases :
          /\ DepId(c[2], c[3]).crate_idx = 1
          /\ RootId(c[1]) \in DOMAIN importable
          /\ Printed(visible[DepId(c[2], c[3])])

\* <<f, ext, m, q>>: `pub fn f() -> dep::internal::Q`, Q a public struct of the
\* public module `internal` of dep, dep's root declaring no item called Q
DepQCases ==
    {c \in RootIds \X ExternalIds \X PackageItemIds \X PackageItemIds :
        /\ <<c[1], c[2]>> \in ExternalReturns
        /\ Len(PathOf(c[2])) = 3
        /\ PathOf(c[2])[1] \in DOMAIN world.packages
        /\ c[3] \in DepNamed(c[2], DepRoot(c[2]).inner.items, PathOf(c[2])[2])
        /\ DepJson(c[2]).index[c[3]].inner.kind = "Module"
        /\ c[4] \in DepNamed(c[2], DepJson(c[2]).index[c[3]].inner.items, PathOf(c[2])[3])
        /\ DepJson(c[2]).index[c[4]].inner.kind = "Struct"
        /\ DepNamed(c[2], DepRoot(c[2]).inner.items, PathOf(c[2])[3]) = {}}

\* resolve returned `res` for the external id: Q's id in dep, dep being loaded
C9_ResolvedTo(res, dep, q) ==
    /\ dep \in DOMAIN res.g.crate_lookup
    /\ res.r = Ok(AbsId(res.g.crate_lookup[dep], q))

\* C9: for `pub fn f() -> dep::internal::Q`, Q not re-exported from dep's root,
\* resolving the external id of Q loads dep and gives Q's id in dep, in every
\* state of the run; when the run has finished, the namespaces of dep's root and
\* of `internal` are cached with `internal` and Q in them, Q's id is a key of
\* visible, is not a key of importable, and Q's label is printed.
C9_ExternalPathIsReported ==
    /\ RootLoaded =>
          \A c \in DepQCases :
              C9_ResolvedTo(resolve(Gnow, RootId(c[2]), TRUE, MaxDepth),
                            PathOf(c[2])[1], c[4])
    /\ pc = "done" =>
          \A c \in DepQCases :
              /\ PathOf(c[2])[1] \in DOMAIN crate_lookup
              /\ vec_get(crates[DepId(c[2], c[3]).crate_idx + 1].import_cache, DepRoot(c[2]).id)
                   # None
              /\ unwrap(vec_get(crates[DepId(c[2], c[3]).crate_idx + 1].import_cache,
                                DepRoot(c[2]).id))[PathOf(c[2])[2]] = DepId(c[2], c[3])
              /\ vec_get(crates[DepId(c[2], c[3]).crate_idx + 1].import_cache, c[3]) # None
              /\ unwrap(vec_get(crates[DepId(c[2], c[3]).crate_idx + 1].import_cache,
                                c[3]))[PathOf(c[2])[3]] = DepId(c[2], c[4])
              /\ DepId(c[2], c[4]) \in DOMAIN visible
              /\ DepId(c[2], c[4]) \notin DOMAIN importable
              /\ Printed(visible[DepId(c[2], c[4])])

C9_Witness ==
    /\ pc = "done"
    /\ \E c \in DepQCases :
          /\ DepId(c[2], c[4]).crate_idx = 1
          /\ RootId(c[1]) \in DOMAIN importable
          /\ Printed(RootLabel \o s_colons \o unwrap(RootIndex[c[1]].name)
                     \o s_colons \o PathOf(c[2])[3])

\* ----------------------------------------------------------------- C10
\* <<t, hidden, bound>>: the root module declares a public trait t with the
\* associated type `type hidden: bound;` of Default visibility, bound being a
\* non-public trait of the root module
TraitCases ==
    {c \in RootIds \X RootIds \X RootIds :
        /\ c[1] \in Range(RootModule.inner.items)
        /\ c[3] \in Range(RootModule.inner.items)
        /\ RootIndex[c[1]].visibility = "Public"
        /\ RootIndex[c[1]].inner.kind = "Trait"
        /\ c[2] \in Range(RootIndex[c[1]].inner.items)
        /\ RootIndex[c[2]].visibility = "Default"
        /\ RootIndex[c[2]].inner.kind = "AssocType"
        /\ RootIndex[c[3]].visibility # "Public"
        /\ RootIndex[c[3]].inner.kind = "Trait"
        /\ is_some(RootIndex[c[3]].name)
        /\ RootIndex[c[2]].inner.bounds
             = <<TraitBound(Path(unwrap(RootIndex[c[3]].name), c[3], None), <<>>)>>}

\* C10 as the specification states it: Hidden's canonical id is a key of the
\* importable map the first traversal returns.
C10_AssocTypeIsImportable ==
    ImportableComputed =>
        \A c \in TraitCases : RootId(c[2]) \in DOMAIN importable

\* C10: for an importable public trait T with `type Hidden: PrivateBound;`,
\* Hidden's canonical id is not a key of the importable map the first traversal
\* returns (T is); it is a key of the visible map, labelled <root>::T::Hidden,
\* and the second traversal expands it (Default visibility of an associated
\* type counts as public), so that PrivateBound is labelled
\* <root>::T::Hidden::PrivateBound and printed.
C10_AssocTypeIsVisibleOnly ==
    /\ ImportableComputed =>
          \A c \in TraitCases :
              /\ RootId(c[1]) \in DOMAIN importable
              /\ RootId(c[2]) \notin DOMAIN importable
    /\ pc = "done" =>
          \A c \in TraitCases :
              /\ RootId(c[2]) \in DOMAIN visible
              /\ visible[RootId(c[2])]
                   = RootLabel \o s_colons \o unwrap(RootIndex[c[1]].name)
                       \o s_colons \o unwrap(RootIndex[c[2]].name)
              /\ RootId(c[3]) \in DOMAIN visible
              /\ visible[RootId(c[3])]
                   = visible[RootId(c[2])] \o s_colons \o unwrap(RootIndex[c[3]].name)
              /\ Printed(visible[RootId(c[3])])

C10_Witness ==
    /\ pc = "done"
    /\ \E c \in TraitCases :
          /\ RootId(c[1]) \in DOMAIN importable
          /\ RootId(c[2]) \in DOMAIN visible
          /\ Cardinality(ReportLines) = 1

\* ----------------------------------------------------------------- C11
\* the second traversal is running or has returned
VisiblePhase == (pc = "bfs" /\ bfs_link = "visible") \/ Traversed

\* C11: for an importable public trait T with `type Hidden: PrivateBound;`
\* (Hidden of Default visibility, PrivateBound not importable), the second
\* traversal enqueues Hidden when it inserts it and expands it: as soon as
\* Hidden has left the queue PrivateBound's canonical id is a key of the map
\* being built. Once the report is printed PrivateBound is a key of the visible
\* map, not a key of the importable map, and its label is a printed line.
C11_HiddenIsExpanded ==
    /\ VisiblePhase =>
          \A c \in TraitCases :
              (RootId(c[1]) \in DOMAIN importable /\ RootId(c[2]) \in DOMAIN hash)
                  => (RootId(c[2]) \in Range(queue) \/ RootId(c[3]) \in DOMAIN hash)
    /\ pc = "done" =>
          \A c \in TraitCases :
              RootId(c[1]) \in DOMAIN importable
                  => /\ RootId(c[3]) \in DOMAIN visible
                     /\ RootId(c[3]) \notin DOMAIN importable
                     /\ \E i \in ReportLines : stdout[i] = s_dash \o visible[RootId(c[3])]

C11_Witness ==
    /\ pc = "done"
    /\ \E c \in TraitCases :
          /\ RootId(c[1]) \in DOMAIN importable
          /\ RootId(c[3]) \in DOMAIN visible
          /\ RootId(c[3]) \notin DOMAIN importable
          /\ stdout = <<s_header, s_dash \o visible[RootId(c[3])]>>

\* ----------------------------------------------------------------- C12
\* the modules of `json` that module m glob-imports directly: the targets of
\* its glob Use children that are modules of the same index
GlobTargets(json, m) ==
    {t \in DOMAIN json.index :
        /\ json.index[t].inner.kind = "Module"
        /\ \E u \in Range(json.index[m].inner.items) \cap DOMAIN json.index :
              /\ json.index[u].inner.kind = "Use"
              /\ json.index[u].inner.is_glob
              /\ json.index[u].inner.id = Some(t)}

\* the modules glob-imported into the modules S through at most `depth` further
\* levels of glob nesting
RECURSIVE GlobImported(_, _, _)
GlobImported(json, S, depth) ==
    IF depth = 0 THEN S
    ELSE GlobImported(json, S \cup UNION {GlobTargets(json, m) : m \in S}, depth - 1)

\* the named declarations (neither re-exports nor extern crates) among the
\* children of module m
NamedChildren(json, m) ==
    {n \in Range(json.index[m].inner.items) \cap DOMAIN json.index :
        /\ is_some(json.index[n].name)
        /\ json.index[n].inner.kind \notin {"Use", "ExternCrate"}}

\* the namespaces the registry holds: <<i, m>> for the module m of crate i
ComputedNamespaces ==
    UNION {{<<i, m>> : m \in {m \in DOMAIN crates[i].rustdoc_json.index :
                                 is_some(vec_get(crates[i].import_cache, m))}}
           : i \in DOMAIN crates}

NamespaceOf(c) == unwrap(vec_get(crates[c[1]].import_cache, c[2]))

\* the modules glob-imported into the module of c at any depth
GlobImportedInto(c) ==
    GlobImported(crates[c[1]].rustdoc_json,
                 GlobTargets(crates[c[1]].rustdoc_json, c[2]),
                 Cardinality(DOMAIN crates[c[1]].rustdoc_json.index))

\* C12: for every module M whose namespace the registry has computed and every
\* named declaration n among the children of a module glob-imported into M at
\* any depth of glob nesting (the glob targets being modules of M's crate, so
\* that no resolution along the chain is Ignored), the namespace of M has n's
\* name as a key, mapped to n's canonical id or, when overwritten, to the
\* canonical id of another item of that name.
C12_NamespaceTotality ==
    \A c \in ComputedNamespaces :
        \A t \in GlobImportedInto(c) :
            \A n \in NamedChildren(crates[c[1]].rustdoc_json, t) :
                LET index == crates[c[1]].rustdoc_json.index
                    name == unwrap(index[n].name)
                IN /\ name \in DOMAIN NamespaceOf(c)
                   /\ \/ NamespaceOf(c)[name] = AbsId(c[1] - 1, n)
                      \/ \E n2 \in DOMAIN index \ {n} :
                            /\ index[n2].name = Some(name)
                            /\ NamespaceOf(c)[name] = AbsId(c[1] - 1, n2)

\* a computed namespace holds an item that reaches it through two nested globs,
\* and an item of a glob-imported module whose name a later entry overwrote
C12_Witness ==
    \E c \in ComputedNamespaces :
        LET json == crates[c[1]].rustdoc_json IN
        /\ \E t \in GlobImportedInto(c) \ GlobTargets(json, c[2]) :
              \E n \in NamedChildren(json, t) :
                  NamespaceOf(c)[unwrap(json.index[n].name)] = AbsId(c[1] - 1, n)
        /\ \E t \in GlobImportedInto(c) :
              \E n \in NamedChildren(json, t) :
                  NamespaceOf(c)[unwrap(json.index[n].name)] # AbsId(c[1] - 1, n)

\* ----------------------------------------------------------------- C13
\* the item of a key of a traversal map
KeyItem(c) == crates[c.crate_idx + 1].rustdoc_json.index[c.item_id]

\* keys whose label got no segment of their own: inherent impls and glob imports
Unnamed(c) ==
    \/ (KeyItem(c).inner.kind = "Impl" /\ KeyItem(c).inner.trait_ = None)
    \/ (KeyItem(c).inner.kind = "Use" /\ KeyItem(c).inner.is_glob)

Injective(map) == \A a, b \in DOMAIN map : a # b => map[a] # map[b]

\* C13 as the specification states it: in the importable map and in the
\* visible map no two distinct canonical ids have the same label.
C13_LabelsAreUnique ==
    /\ ImportableComputed => Injective(importable)
    /\ Traversed => Injective(visible)

\* <<p, iid>>: the key p of `map` whose item links the child iid under the
\* linker `which`, the registry resolving that child to c
LinkedFrom(map, which, c) ==
    UNION {{<<p, iid>> : iid \in {iid \in Range(apply_link(which, KeyItem(p)).ids) :
                                      resolve_cached(Gnow, same_crate(p, iid))
                                          = Some(ResolveCacheEntry_Id(c))}}
           : p \in DOMAIN map \ {c}}

\* the label the child iid of the key p gets: p's label, followed by `::` and
\* the child's name when it has one
ChildLabel(map, p, iid) ==
    LET name == item2_name(crates[p.crate_idx + 1].rustdoc_json, iid) IN
    CASE name.tag = "Ok" /\ name.val = None -> map[p]
      [] name.tag = "Ok" /\ name.val # None -> map[p] \o s_colons \o unwrap(name.val)
      [] OTHER -> <<>>

\* every key of `map` outside `seed` carries the label of a key that links to it
LabelsDerived(map, seed, which) ==
    \A c \in DOMAIN map \ DOMAIN seed :
        \E l \in LinkedFrom(map, which, c) : map[c] = ChildLabel(map, l[1], l[2])

\* every inherent impl and glob import among the keys shares its label with
\* another key
UnnamedShareLabels(map) ==
    \A c \in DOMAIN map :
        (Unnamed(c) /\ c # RootId(crates[1].root_module))
            => \E p \in DOMAIN map \ {c} : map[p] = map[c]

\* C13: in every map returned by bfs the root module is labelled with the crate
\* name, a seed key keeps its seed label, and every other key is labelled with
\* the label of a key whose item links to it, followed by `::` and the name of
\* the linking child, or with that label unchanged when the child is an
\* inherent impl or a glob import; such a key shares its label with another
\* key, so labels are not unique.
C13_LabelsExtendParent ==
    /\ ImportableComputed =>
          /\ importable[RootId(crates[1].root_module)] = RootLabel
          /\ LabelsDerived(importable, RootId(crates[1].root_module) :> RootLabel,
                           "importable")
          /\ UnnamedShareLabels(importable)
    /\ Traversed =>
          /\ \A c \in DOMAIN importable : visible[c] = importable[c]
          /\ LabelsDerived(visible, importable, "visible")
          /\ UnnamedShareLabels(visible)

\* a finished run whose importable map labels a glob import like its parent, or
\* whose visible map labels an inherent impl like its type
C13_Witness ==
    /\ Traversed
    /\ \/ \E c \in DOMAIN importable :
             /\ KeyItem(c).inner.kind = "Use"
             /\ \E p \in DOMAIN importable \ {c} : importable[p] = importable[c]
       \/ \E c \in DOMAIN visible \ DOMAIN importable :
             /\ KeyItem(c).inner.kind = "Impl"
             /\ \E p \in DOMAIN visible \ {c} : visible[p] = visible[c]

\* ----------------------------------------------------------------- C14
\* the step is a direct call of `op` that has returned
Called(op) == last'.n = last.n + 1 /\ last'.op = op

StandardLibraryNames == {s_std, s_core, s_alloc, s_proc_macro, s_test}

\* C14: in every registry state, resolve_crate called with std, core, alloc,
\* proc_macro or test returns Ignore, does not call build_rustdoc_json, and
\* leaves `crates` and `crate_lookup` as they were.
C14_StdlibQuarantine ==
    [][(Called("resolve_crate") /\ last'.arg[1] \in StandardLibraryNames)
          => /\ last'.r = Ignore
             /\ builds' = builds
             /\ crates' = crates
             /\ crate_lookup' = crate_lookup]_vars

\* resolve_crate("test") has returned Ignore with two packages in the registry
C14_Witness ==
    /\ last.op = "resolve_crate"
    /\ last.arg = <<s_test>>
    /\ last.r = Ignore
    /\ Len(crates) = 2
    /\ Len(builds) = 2

\* ----------------------------------------------------------------- C15
\* the id k of `json` reduces to a standard-library package: it is an extern
\* crate item naming one, a path summary whose external crate is one, or a
\* re-export whose target reduces to one (through at most `depth` re-exports)
RECURSIVE ReachesStd(_, _, _)
ReachesStd(json, k, depth) ==
    IF k \in DOMAIN json.index
    THEN \/ /\ json.index[k].inner.kind = "ExternCrate"
            /\ json.index[k].inner.name \in StandardLibraryNames
         \/ /\ json.index[k].inner.kind = "Use"
            /\ ~json.index[k].inner.is_glob
            /\ json.index[k].inner.id # None
            /\ depth > 0
            /\ ReachesStd(json, unwrap(json.index[k].inner.id), depth - 1)
    ELSE /\ k \in DOMAIN json.paths
         /\ json.paths[k].crate_id \in DOMAIN json.external_crates
         /\ json.external_crates[json.paths[k].crate_id].name \in StandardLibraryNames

\* the same for an id of the registry
ReducesToStd(id) ==
    /\ id.crate_idx < Len(crates)
    /\ ReachesStd(crates[id.crate_idx + 1].rustdoc_json, id.item_id,
                  Cardinality(DOMAIN crates[id.crate_idx + 1].rustdoc_json.index))

\* the children of the root module that are named declarations
RootDeclarations == NamedChildren(RootJson, crates[1].root_module)
\* the children of the root module that reduce to a standard library
RootStdChildren == {k \in Range(RootModule.inner.items) : ReducesToStd(RootId(k))}

\* C15, resolve: resolve of an id that reduces to a standard library returns
\* Ignore and leaves the Ignore entry in the resolve cache slot of that id; no
\* such id ever has another entry.
C15_ResolveIgnores ==
    /\ (last.op = "resolve" /\ ReducesToStd(last.arg[1]))
          => /\ last.r = Ignore
             /\ resolve_cached(Gnow, last.arg[1]) = Some(ResolveCacheEntry_Ignore)
    /\ \A id \in KnownIds :
          ReducesToStd(id)
              => resolve_cached(Gnow, id) \in {None, Some(ResolveCacheEntry_Ignore)}

\* C15, namespace builder: when every child of the root module is a named
\* declaration or reduces to a standard library, resolve2 with a non-empty path
\* leaves the root module's namespace computed, holding exactly the
\* declarations; no entry of any namespace reduces to a standard library.
C15_NamespaceSkips ==
    /\ (/\ last.op = "resolve2"
        /\ last.arg[1] = root_package
        /\ last.arg[2] # <<>>
        /\ RootStdChildren # {}
        /\ Range(RootModule.inner.items) = RootDeclarations \cup RootStdChildren)
          => /\ <<1, crates[1].root_module>> \in ComputedNamespaces
             /\ NamespaceOf(<<1, crates[1].root_module>>)
                  = [name \in {unwrap(RootIndex[k].name) : k \in RootDeclarations} |->
                        RootId(CHOOSE k \in RootDeclarations :
                                   unwrap(RootIndex[k].name) = name)]
    /\ \A c \in ComputedNamespaces :
          \A name \in DOMAIN NamespaceOf(c) : ~ReducesToStd(NamespaceOf(c)[name])

\* C15, bfs: no key of a traversal map reduces to a standard library; a root
\* module with such a child still has every public declaration among its
\* children in the importable map; a traversal whose root module has only
\* declarations and such children logs no failure; bfs never returns an error
\* because of them.
C15_BfsSkips ==
    /\ \A c \in DOMAIN hash \cup DOMAIN importable \cup DOMAIN visible : ~ReducesToStd(c)
    /\ (ImportableComputed /\ RootStdChildren # {})
          => \A k \in RootDeclarations :
                 RootIndex[k].visibility = "Public" => RootId(k) \in DOMAIN importable
    /\ (/\ pc \in {"bfs", "report", "done"}
        /\ bfs_link = "importable"
        /\ RootStdChildren # {}
        /\ Range(RootModule.inner.items) = RootDeclarations \cup RootStdChildren)
          => stderr = 0
    /\ (RootLoaded /\ RootStdChildren # {}) => pc # "failed"

\* C15: an id whose resolution reaches a standard-library package resolves to
\* Ignore, the Ignore entry is stored in the resolve cache for that id, the
\* namespace builder and bfs skip such a child without failing, and no
\* namespace entry and no key of a traversal map is such an id.
C15_IgnoredPropagates == C15_ResolveIgnores /\ C15_NamespaceSkips /\ C15_BfsSkips

\* the finished run over a root module with three children that reduce to std,
\* or a namespace computed for it
C15_Witness ==
    /\ RootLoaded
    /\ Cardinality(RootStdChildren) = 3
    /\ \/ /\ pc = "done"
          /\ \E k \in RootDeclarations : RootId(k) \in DOMAIN importable
       \/ /\ last.op = "resolve2"
          /\ <<1, crates[1].root_module>> \in ComputedNamespaces

\* ----------------------------------------------------------------- C16
\* the invocations of the provider that returned a package's JSON
SuccessfulBuilds == {i \in DOMAIN builds : build_rustdoc_json(builds[i]).tag = "Ok"}

\* C16: the provider is successfully invoked at most once per package, no two
\* indices of `crates` hold the same package (whatever the spellings of its
\* name the callers used), every name of crate_lookup has an index of its own,
\* and every loaded rustdoc_json is the JSON the provider returned.
C16_PackageLoadedOnce ==
    /\ \A i, j \in SuccessfulBuilds :
          build_rustdoc_json(builds[i]).val = build_rustdoc_json(builds[j]).val => i = j
    /\ \A i, j \in DOMAIN crates :
          crates[i].rustdoc_json = crates[j].rustdoc_json => i = j
    /\ \A a, b \in DOMAIN crate_lookup : crate_lookup[a] = crate_lookup[b] => a = b
    /\ \A i \in DOMAIN crates : crates[i].rustdoc_json \in Range(world.packages)

\* ----------------------------------------------------------------- C17
\* C17: every id in the queue of a running bfs (the root module, a seed key or
\* a newly discovered child) is a canonical id, an item of its crate's index
\* that is neither an extern crate item nor a non-glob re-export, and the item
\* lookup on the id at the head of the queue succeeds.
C17_QueuedIdsAreCanonical ==
    /\ \A id \in Range(queue) : IsCanonical(id)
    /\ (pc = "bfs" /\ queue # <<>>) => is_some(graph_index(Gnow, Head(queue)))

\* the part of C17 that holds: every queued id is an item of its crate's index
C17_QueuedIdsAreItems ==
    \A id \in Range(queue) : is_some(ItemOf(id))

\* ----------------------------------------------------------------- C18
\* the id of the type of the first parameter of the function h
FirstInputId(h) == RootIndex[h].inner.sig.inputs[1][2].path.id

\* <<e, h, p>>: the root module's first child e is a public `extern crate` of a
\* package the provider cannot build; its child h is a public function whose
\* first parameter has a type with an id the crate's JSON lists nowhere, and
\* whose second parameter has the type p, a non-public struct of the root module
FailCases ==
    {c \in RootIds \X RootIds \X RootIds :
        /\ Head(RootModule.inner.items) = c[1]
        /\ RootIndex[c[1]].visibility = "Public"
        /\ RootIndex[c[1]].inner.kind = "ExternCrate"
        /\ build_rustdoc_json(RootIndex[c[1]].inner.name).tag = "Fail"
        /\ RootIndex[c[1]].inner.name \notin StandardLibraryNames
        /\ c[2] \in Range(RootModule.inner.items)
        /\ RootIndex[c[2]].visibility = "Public"
        /\ RootIndex[c[2]].inner.kind = "Function"
        /\ c[3] \in Range(RootModule.inner.items)
        /\ RootIndex[c[3]].visibility # "Public"
        /\ RootIndex[c[3]].inner.kind = "Struct"
        /\ Len(RootIndex[c[2]].inner.sig.inputs) = 2
        /\ RootIndex[c[2]].inner.sig.inputs[1][2].t = "ResolvedPath"
        /\ FirstInputId(c[2]) \notin DOMAIN RootIndex \cup DOMAIN RootJson.paths
        /\ RootIndex[c[2]].inner.sig.inputs[2][2]
             = TypeOf(unwrap(RootIndex[c[3]].name), c[3])}

\* C18: when resolve fails for a child during bfs, the run does not abort: the
\* failure is logged, the child is neither inserted nor enqueued, the children
\* after it and the ids queued after its parent are still processed, and both
\* traversals return a map (the program goes on to print its report).
C18_FailedChildIsDropped ==
    RootLoaded =>
        \A c \in FailCases :
            /\ pc \notin {"failed", "panicked"}
            /\ {RootId(c[1]), RootId(FirstInputId(c[2]))}
                  \cap (DOMAIN hash \cup Range(queue) \cup DOMAIN importable
                        \cup DOMAIN visible) = {}
            /\ ImportableComputed =>
                  /\ stderr >= 1
                  /\ \A k \in RootDeclarations :
                         RootIndex[k].visibility = "Public"
                             => RootId(k) \in DOMAIN importable
            /\ Traversed =>
                  /\ stderr >= 2
                  /\ RootId(c[3]) \in DOMAIN visible
                  /\ visible[RootId(c[3])]
                       = RootLabel \o s_colons \o unwrap(RootIndex[c[2]].name)
                           \o s_colons \o unwrap(RootIndex[c[3]].name)
            /\ pc = "done" => stdout = <<s_header, s_dash \o visible[RootId(c[3])]>>

C18_Witness ==
    /\ pc = "done"
    /\ FailCases # {}
    /\ stderr = 2
    /\ Cardinality(DOMAIN importable) = 3
    /\ Cardinality(DOMAIN visible) = 4

\* ----------------------------------------------------------------- C19
\* C19: every computation of a namespace terminates: no call of resolve or
\* resolve2 (which compute the namespaces of the modules on a path) ends in
\* unbounded recursion, a glob import whose target leads back to the module
\* that contains it included.
C19_NamespaceTerminates ==
    last.op \in {"resolve", "resolve2"} => last.r.tag # "Overflow"

\* ----------------------------------------------------------------- C20
\* the second traversal, run from the seed order `order`, returned `res`, and
\* `res` is the visible map of this run
SameVisible(res) == res.r.tag = "Ok" /\ res.r.val = visible

\* C20: the visible map the second traversal returned (key set and labels), and
\* with it the report, is the map it returns from every order in which the
\* keys of the importable map can be enqueued as seeds.
C20_VisibleIsDeterministic ==
    pc = "report" =>
        \A order \in Perms(DOMAIN importable) :
            SameVisible(bfs_loop(Gnow, "visible", Loc(importable, order, stderr), FALSE))

\* ----------------------------------------------------------------- C21
\* the slots of a cache vector that hold an entry
Filled(cache) == {k \in DOMAIN cache : cache[k] # None}

\* C21: in every step of the program and of the GraphCache operations an
\* existing crate keeps its index, its JSON and its root module, crate_lookup
\* keeps every name with its index, and a resolve_cache or import_cache slot
\* that holds an entry holds the same entry afterwards.
C21_RegistryGrows ==
    [][/\ \A n \in DOMAIN crate_lookup :
              n \in DOMAIN crate_lookup' /\ crate_lookup'[n] = crate_lookup[n]
       /\ \A i \in DOMAIN crates :
              /\ i \in DOMAIN crates'
              /\ crates'[i].rustdoc_json = crates[i].rustdoc_json
              /\ crates'[i].root_module = crates[i].root_module
              /\ \A k \in Filled(crates[i].resolve_cache) :
                     /\ k \in DOMAIN crates'[i].resolve_cache
                     /\ crates'[i].resolve_cache[k] = crates[i].resolve_cache[k]
              /\ \A k \in Filled(crates[i].import_cache) :
                     /\ k \in DOMAIN crates'[i].import_cache
                     /\ crates'[i].import_cache[k] = crates[i].import_cache[k]]_vars

\* two crates are loaded, the first has two resolve-cache entries and the
\* second a cached namespace
C21_Witness ==
    /\ Len(crates) = 2
    /\ Cardinality(Filled(crates[1].resolve_cache)) >= 2
    /\ Filled(crates[2].import_cache) # {}

\* ----------------------------------------------------------------- C22
\* the first traversal is running
ImportablePhase == pc = "bfs" /\ bfs_link = "importable"

\* the item k of `json` counts as public: its visibility is Public, or Default
\* on an associated type, a variant or an impl
IsPublicItem(json, k) ==
    /\ k \in DOMAIN json.index
    /\ \/ json.index[k].visibility = "Public"
       \/ /\ json.index[k].visibility = "Default"
          /\ json.index[k].inner.kind \in {"AssocType", "Variant", "Impl"}

KeyJson(c) == crates[c.crate_idx + 1].rustdoc_json

\* the public children the first traversal's linker emits for the key p
PublicChildren(p) ==
    {iid \in Range(link_importable(KeyItem(p)).ids) : IsPublicItem(KeyJson(p), iid)}

\* c was reached through a public child of a key of `map` outside `waiting`
ReachedPublicly(map, waiting, c) ==
    \E p \in DOMAIN map \ ({c} \cup waiting) :
        \E iid \in PublicChildren(p) :
            resolve_cached(Gnow, same_crate(p, iid)) = Some(ResolveCacheEntry_Id(c))

\* the public children of the key p that resolved are keys of `map`
Expanded(map, p) ==
    \A iid \in PublicChildren(p) :
        \A d \in DOMAIN map \cup CanonIds :
            resolve_cached(Gnow, same_crate(p, iid)) = Some(ResolveCacheEntry_Id(d))
                => d \in DOMAIN map

\* a crate whose items are neither re-exports nor known through `paths`
PlainCrate(json) ==
    /\ DOMAIN json.paths = {}
    /\ \A k \in DOMAIN json.index : json.index[k].inner.kind # "Use"

\* C22: in the first traversal (require_public = true) a child that is not
\* public is skipped before it is resolved: while the traversal runs, in a
\* crate without re-exports no such item has a resolve-cache entry and the
\* package of a non-public `extern crate` has not been built. Every key of the
\* map other than the root module was reached through a public child of a key
\* that has left the queue, and every key is enqueued: it is still in the
\* queue or its own public children have been inserted.
C22_ImportableFollowsPublic ==
    /\ ImportablePhase =>
          /\ \A c \in DOMAIN hash \ {RootId(crates[1].root_module)} :
                 ReachedPublicly(hash, Range(queue), c)
          /\ \A c \in DOMAIN hash : c \in Range(queue) \/ Expanded(hash, c)
          /\ PlainCrate(RootJson) =>
                 \A k \in RootIds \ {crates[1].root_module} :
                     ~IsPublicItem(RootJson, k)
                         => /\ resolve_cached(Gnow, RootId(k)) = None
                            /\ RootIndex[k].inner.kind = "ExternCrate"
                                   => RootIndex[k].inner.name \notin Range(builds)
    /\ ImportableComputed =>
          /\ \A c \in DOMAIN importable \ {RootId(crates[1].root_module)} :
                 ReachedPublicly(importable, {}, c)
          /\ \A c \in DOMAIN importable : Expanded(importable, c)

\* the first traversal has emptied its queue over a root module with a
\* non-public `extern crate` and a non-public struct, neither of them resolved
C22_Witness ==
    /\ ImportablePhase
    /\ queue = <<>>
    /\ Cardinality(DOMAIN hash) = 2
    /\ \E k \in RootIds :
          /\ RootIndex[k].inner.kind = "ExternCrate"
          /\ ~IsPublicItem(RootJson, k)
          /\ RootIndex[k].inner.name \in DOMAIN world.packages
    /\ \E k \in RootIds :
          RootIndex[k].inner.kind = "Struct" /\ ~IsPublicItem(RootJson, k)

\* ----------------------------------------------------------------- C23
\* the children the second traversal's linker emits for the key p
VisibleChildren(p) == link_visible(KeyItem(p)).ids

\* the registry `reg` caches c as the outcome of the child at position i of p
ChildResolvesTo(reg, p, i, c) ==
    vec_get(reg[p.crate_idx + 1].resolve_cache, VisibleChildren(p)[i])
        = Some(ResolveCacheEntry_Id(c))

\* the first child of the key p that resolves to c is public
FirstChildIsPublic(reg, p, c) ==
    \E i \in DOMAIN VisibleChildren(p) :
        /\ ChildResolvesTo(reg, p, i, c)
        /\ \A j \in 1..(i - 1) : ~ChildResolvesTo(reg, p, j, c)
        /\ IsPublicItem(KeyJson(p), VisibleChildren(p)[i])

\* every child of every key of `map` that resolves to c is not public
OnlyNonPublicly(reg, map, c) ==
    \A p \in DOMAIN map :
        \A i \in DOMAIN VisibleChildren(p) :
            ChildResolvesTo(reg, p, i, c)
                => ~IsPublicItem(KeyJson(p), VisibleChildren(p)[i])

\* d is referenced from the key c and from no other key of `map`
ReferencedOnlyFrom(reg, map, c, d) ==
    /\ \E i \in DOMAIN VisibleChildren(c) : ChildResolvesTo(reg, c, i, d)
    /\ \A p \in DOMAIN map \ {c} :
          \A i \in DOMAIN VisibleChildren(p) : ~ChildResolvesTo(reg, p, i, d)

\* C23: in the second traversal (require_public = false) an id that an
\* iteration inserts is enqueued exactly when the child that discovered it is
\* public, and only ids inserted by the iteration are enqueued by it, so an id
\* discovered through a non-public child is labelled and never enqueued. In
\* the map the traversal returns, an id outside the seed that is reached only
\* through non-public children has not been expanded: no id referenced from
\* it alone is a key.
C23_PrivateReferentIsNotExpanded ==
    [][/\ (pc = "bfs" /\ bfs_link = "visible" /\ pc' = "bfs" /\ queue # <<>>) =>
              /\ \A c \in DOMAIN hash' \ DOMAIN hash :
                     (c \in Range(queue')) <=> FirstChildIsPublic(crates', Head(queue), c)
              /\ Range(queue') \ Range(queue) \subseteq DOMAIN hash' \ DOMAIN hash
       /\ (pc = "bfs" /\ pc' = "report") =>
              \A c \in DOMAIN visible' \ DOMAIN importable :
                  OnlyNonPublicly(crates, visible', c)
                      => \A d \in DOMAIN visible' :
                             ~ReferencedOnlyFrom(crates, visible', c, d)
      ]_vars

\* the finished run in which a non-public struct with a public field was
\* labelled and neither its field nor the field's type entered the map
C23_Witness ==
    /\ pc = "done"
    /\ \E c \in DOMAIN visible \ DOMAIN importable :
          /\ OnlyNonPublicly(crates, visible, c)
          /\ KeyItem(c).inner.kind = "Struct"
          /\ KeyItem(c).inner.skind.k = "Plain"
          /\ \A k \in Range(KeyItem(c).inner.skind.fields) :
                 same_crate(c, k) \notin DOMAIN visible
          /\ stdout = <<s_header, s_dash \o visible[c]>>

\* ----------------------------------------------------------------- C24
\* the children the running traversal's linker emits for the key p
LinkedChildren(p) ==
    IF bfs_link = "importable" THEN link_importable(KeyItem(p)).ids
    ELSE link_visible(KeyItem(p)).ids

\* the positions of the children of p that the registry `reg` resolves to c
PositionsOf(reg, p, c) ==
    {i \in DOMAIN LinkedChildren(p) :
        vec_get(reg[p.crate_idx + 1].resolve_cache, LinkedChildren(p)[i])
            = Some(ResolveCacheEntry_Id(c))}

\* the considered children of p that resolve to c: all of them in the second
\* traversal, the public ones in the first
Considered(reg, p, c) ==
    {i \in PositionsOf(reg, p, c) :
        bfs_link = "importable" => IsPublicItem(KeyJson(p), LinkedChildren(p)[i])}

\* the child of p that led to the new key c
DiscoveringChild(reg, p, c) ==
    LinkedChildren(p)[CHOOSE i \in Considered(reg, p, c) :
                         \A j \in Considered(reg, p, c) : i <= j]

\* C24: in either traversal a newly inserted id is enqueued exactly when the
\* child id that led to it names, in the dequeued parent's own package, an
\* item that is Public, or Default on an associated type, a variant or an
\* impl; the visibility of the canonical item the child resolved to plays no
\* part, and a child id the parent's package has no item for is not public.
C24_IsPublicIsTheChildsOwn ==
    [][(pc = "bfs" /\ pc' = "bfs" /\ queue # <<>>) =>
          \A c \in DOMAIN hash' \ DOMAIN hash :
              /\ Considered(crates', Head(queue), c) # {}
              /\ (c \in Range(queue')) <=>
                   \E item \in {KeyJson(Head(queue)).index[k] :
                           k \in {DiscoveringChild(crates', Head(queue), c)}
                                    \cap DOMAIN KeyJson(Head(queue)).index} :
                       \/ item.visibility = "Public"
                       \/ /\ item.visibility = "Default"
                          /\ item.inner.kind \in {"AssocType", "Variant", "Impl"}
      ]_vars

\* the second traversal holds a key of another package, public there, that
\* the root package names only through a path summary: it is labelled and is
\* not waiting in the queue
C24_Witness ==
    /\ pc = "bfs" /\ bfs_link = "visible"
    /\ \E c \in DOMAIN hash \ Range(queue) :
          /\ c.crate_idx # 0
          /\ KeyItem(c).visibility = "Public"
          /\ \E p \in DOMAIN hash \ Range(queue) :
                /\ PositionsOf(crates, p, c) # {}
                /\ \A i \in PositionsOf(crates, p, c) :
                       LinkedChildren(p)[i] \notin DOMAIN KeyJson(p).index

\* ----------------------------------------------------------------- C25
\* the last direct call was resolve(x), x.item_id absent from the index of its
\* crate and present in `paths`, its external crate listed in external_crates
ResolvedExternal(x) ==
    /\ last.op = "resolve"
    /\ last.arg[1] = x
    /\ x.item_id \notin DOMAIN KeyJson(x).index
    /\ x.item_id \in DOMAIN KeyJson(x).paths
    /\ KeyJson(x).paths[x.item_id].crate_id \in DOMAIN KeyJson(x).external_crates

Segments(x) == KeyJson(x).paths[x.item_id].path

\* the name load_package is called with, under the key it registers it by
ExternalName(x) ==
    IF KeyJson(x).external_crates[KeyJson(x).paths[x.item_id].crate_id].name = s_webpki
    THEN s_rustls_webpki
    ELSE KeyJson(x).external_crates[KeyJson(x).paths[x.item_id].crate_id].name

NoNamespace == [tag |-> "NoNamespace"]

\* the ids the segments lead through, from `cur`, over the namespaces the
\* registry `reg` has cached
RECURSIVE FollowSegments(_, _, _)
FollowSegments(reg, cur, segments) ==
    IF segments = <<>> THEN Ok(cur)
    ELSE IF Head(segments) = s___private THEN Ignore
    ELSE IF vec_get(reg[cur.crate_idx + 1].import_cache, cur.item_id) = None
    THEN NoNamespace
    ELSE IF Head(segments)
              \notin DOMAIN unwrap(vec_get(reg[cur.crate_idx + 1].import_cache, cur.item_id))
    THEN Fail
    ELSE FollowSegments(reg,
                        unwrap(vec_get(reg[cur.crate_idx + 1].import_cache,
                                       cur.item_id))[Head(segments)],
                        Tail(segments))

\* the root module of the package the path summary of x names
ExternalRoot(lookup, reg, x) ==
    AbsId(lookup[ExternalName(x)], reg[lookup[ExternalName(x)] + 1].root_module)

\* what the path summary of x leads to
ExpectedExternal(x) ==
    IF ExternalName(x) \in StandardLibraryNames THEN Ignore
    ELSE IF ExternalName(x) \notin DOMAIN crate_lookup THEN Fail
    ELSE FollowSegments(crates, ExternalRoot(crate_lookup, crates, x), Tail(Segments(x)))

\* C25: resolve(x) for an id x absent from the index of its crate and present
\* in `paths` with at least one segment returns what walking the segments
\* after the first gives, starting at the root module of the package that
\* external_crates names for the summary's crate id: every segment is looked
\* up in the namespace of the id reached so far and the last id reached is the
\* result; the first segment is not looked up. A package that did not load and
\* a segment missing from a namespace give a failure, a standard library and
\* `__private` give Ignored, and a namespace that could not be built gives no
\* id.
C25_ExternalPathIsWalked ==
    RootLoaded =>
        \A x \in KnownIds :
            (ResolvedExternal(x) /\ Segments(x) # <<>>) =>
                \/ last.r = ExpectedExternal(x)
                \/ /\ ExpectedExternal(x) = NoNamespace
                   /\ last.r.tag \notin {"Ok", "Ignore"}

\* resolve returned an id of the dependency for a path whose first segment is
\* the name of no package and of no item
C25_Witness ==
    /\ RootLoaded
    /\ \E x \in KnownIds :
          /\ ResolvedExternal(x)
          /\ Len(Segments(x)) = 2
          /\ Segments(x)[1] # ExternalName(x)
          /\ Segments(x)[1] \notin DOMAIN world.packages
          /\ last.r.tag = "Ok"
          /\ last.r.val.crate_idx = crate_lookup[ExternalName(x)]
          /\ last.r.val.crate_idx # x.crate_idx
          /\ KeyItem(last.r.val).name = Some(Segments(x)[2])

\* ----------------------------------------------------------------- C26
\* C26: resolving an id absent from the index whose path summary holds no
\* segment gives a failure, an error value, and does not end the process:
\* a direct resolve call on it returns Fail, and the run over a root crate
\* that is one public function returning such a path does not panic.
C26_EmptyPathIsAFailure ==
    RootLoaded =>
        /\ \A x \in KnownIds :
               (ResolvedExternal(x) /\ Segments(x) = <<>>) =>
                   (last.r = Fail /\ pc # "panicked")
        /\ \A c \in ExternalReturns :
               (PathOf(c[2]) = <<>> /\ Cardinality(RootIds) = 2 /\ last.n = 0) =>
                   pc # "panicked"

\* ----------------------------------------------------------------- C27
\* the id x is known through a path summary whose segments after the first
\* hold `__private`
ExternalThroughPrivate(x) ==
    /\ x.item_id \notin DOMAIN KeyJson(x).index
    /\ x.item_id \in DOMAIN KeyJson(x).paths
    /\ KeyJson(x).paths[x.item_id].crate_id \in DOMAIN KeyJson(x).external_crates
    /\ \E k \in 2..Len(Segments(x)) : Segments(x)[k] = s___private

\* the position of the first `__private` among the segments resolve_path gets
PrivateAt(x) ==
    CHOOSE k \in 2..Len(Segments(x)) :
        /\ Segments(x)[k] = s___private
        /\ \A j \in 2..(k - 1) : Segments(x)[j] # s___private

\* the id the segments before the first `__private` lead to
BeforePrivate(lookup, reg, x) ==
    FollowSegments(reg, ExternalRoot(lookup, reg, x),
                   SubSeq(Segments(x), 2, PrivateAt(x) - 1))

\* the ids whose namespace the segments before the first `__private` are
\* looked up in
LookedUpIn(lookup, reg, x) ==
    {FollowSegments(reg, ExternalRoot(lookup, reg, x), SubSeq(Segments(x), 2, j)).val :
        j \in 1..(PrivateAt(x) - 2)}

\* the ids the registry `reg` holds a namespace for
NamespacesBuilt(reg) ==
    UNION {{AbsId(i - 1, k - 1) : k \in Filled(reg[i].import_cache)} : i \in DOMAIN reg}

\* C27: a call of resolve on an uncached id known through a path summary of a
\* package that loads, the segments after the first holding `__private`: when
\* the segments before the first `__private` are each found in the namespace
\* of the id reached so far, the call returns Ignored and leaves Ignored in
\* the resolve-cache slot of the id it was called with, and the namespaces it
\* adds to the registry are those of ids these segments were looked up in,
\* none for the id reached last: no segment from `__private` on is looked up.
\* When one of the segments before `__private` is missing the call returns a
\* failure and the slot stays empty.
C27_PrivateSegmentIsIgnored ==
    [][\A x \in KnownIds :
          (/\ Called("resolve")
           /\ last'.arg[1] = x
           /\ ExternalThroughPrivate(x)
           /\ resolve_cached(Gnow, x) = None
           /\ ExternalName(x) \in DOMAIN crate_lookup') =>
              /\ BeforePrivate(crate_lookup', crates', x).tag = "Ok" =>
                    /\ last'.r = Ignore
                    /\ vec_get(crates'[x.crate_idx + 1].resolve_cache, x.item_id)
                         = Some(ResolveCacheEntry_Ignore)
                    /\ NamespacesBuilt(crates') \ NamespacesBuilt(crates)
                         \subseteq LookedUpIn(crate_lookup', crates', x)
              /\ BeforePrivate(crate_lookup', crates', x).tag = "Fail" =>
                    /\ last'.r = Fail
                    /\ vec_get(crates'[x.crate_idx + 1].resolve_cache, x.item_id) = None
      ]_vars

\* resolve returned Ignored for dep::internal::__private::Q: the root of dep
\* has a namespace, `internal` has none
C27_Witness ==
    /\ RootLoaded
    /\ \E x \in KnownIds :
          /\ ResolvedExternal(x)
          /\ ExternalName(x) \in DOMAIN crate_lookup
          /\ Len(Segments(x)) = 4
          /\ Segments(x)[3] = s___private
          /\ last.r = Ignore
          /\ resolve_cached(Gnow, x) = Some(ResolveCacheEntry_Ignore)
          /\ NamespacesBuilt(crates) = {ExternalRoot(crate_lookup, crates, x)}
          /\ KeyItem(BeforePrivate(crate_lookup, crates, x).val).inner.kind = "Module"
\* ----------------------------------------------------------------- C28
\* the resolve-cache entry the registry `reg` holds for the id k of the crate
\* of c, read as an id, if it is one
CachedId(reg, c, k) ==
    IF ~is_some(vec_get(reg[c.crate_idx + 1].resolve_cache, k)) THEN None
    ELSE IF unwrap(vec_get(reg[c.crate_idx + 1].resolve_cache, k)).e # "Id" THEN None
    ELSE Some(unwrap(vec_get(reg[c.crate_idx + 1].resolve_cache, k)).id)

ItemIn(reg, c) == reg[c.crate_idx + 1].rustdoc_json.index[c.item_id]

\* the canonical id of the child at position i of the module m, if any
ChildCanon(reg, m, i) == CachedId(reg, m, ItemIn(reg, m).inner.items[i])

\* the module the glob import c brings in, if its target resolved to an id
GlobModule(reg, c) == CachedId(reg, c, unwrap(ItemIn(reg, c).inner.id))

RECURSIVE Supplied(_, _, _, _)

\* what the canonical child c of a module supplies for `name`: itself when it
\* carries the name, what the module it glob-imports supplies when it is a
\* glob import
SuppliedByChild(reg, c, name, nesting) ==
    IF ItemIn(reg, c).name = Some(name) THEN Some(c)
    ELSE IF is_some(ItemIn(reg, c).name) THEN None
    ELSE IF ItemIn(reg, c).inner.kind # "Use" THEN None
    ELSE IF ~ItemIn(reg, c).inner.is_glob \/ ~is_some(ItemIn(reg, c).inner.id) THEN None
    ELSE IF ~is_some(GlobModule(reg, c)) \/ nesting = 0 THEN None
    ELSE Supplied(reg, unwrap(GlobModule(reg, c)), name, nesting - 1)

\* what the child at position i of the module m supplies for `name`
SuppliedBy(reg, m, i, name, nesting) ==
    IF ~is_some(ChildCanon(reg, m, i)) THEN None
    ELSE SuppliedByChild(reg, unwrap(ChildCanon(reg, m, i)), name, nesting)

\* the supply of the last of the positions S
SuppliedLast(reg, m, name, nesting, S) ==
    IF S = {} THEN None
    ELSE SuppliedBy(reg, m, CHOOSE i \in S : \A j \in S : j <= i, name, nesting)

\* what the module m maps `name` to when the child latest in its item
\* sequence that supplies the name decides
Supplied(reg, m, name, nesting) ==
    SuppliedLast(reg, m, name, nesting,
                 {i \in DOMAIN ItemIn(reg, m).inner.items :
                     is_some(SuppliedBy(reg, m, i, name, nesting))})

\* the names items of the loaded crates carry
ItemNames ==
    UNION {{unwrap(crates[i].rustdoc_json.index[k].name) :
               k \in {k \in DOMAIN crates[i].rustdoc_json.index :
                         is_some(crates[i].rustdoc_json.index[k].name)}}
           : i \in DOMAIN crates}

\* C28: every namespace the registry has computed maps a name to the canonical
\* id supplied by the child latest in the module's item sequence among those
\* that supply the name, a child supplying its canonical item's own name, a
\* glob import every name of the module it brings in (settled there in the
\* same way); the namespace has no other key. So of a direct child and a later
\* glob import with an entry of the same name the glob's entry is kept.
C28_LastWriterWins ==
    \A c \in ComputedNamespaces :
        /\ DOMAIN NamespaceOf(c) \subseteq ItemNames
        /\ \A name \in ItemNames :
               Supplied(crates, AbsId(c[1] - 1, c[2]), name,
                        Cardinality(DOMAIN crates[c[1]].rustdoc_json.index))
                 = get(NamespaceOf(c), name)

\* a computed namespace maps a name that a direct child and a later glob import
\* both supply to the glob's entry
C28_Witness ==
    \E c \in ComputedNamespaces :
        \E name \in DOMAIN NamespaceOf(c) :
            \E i, j \in DOMAIN crates[c[1]].rustdoc_json.index[c[2]].inner.items :
                /\ i < j
                /\ ChildCanon(crates, AbsId(c[1] - 1, c[2]), i) # None
                /\ ItemIn(crates, unwrap(ChildCanon(crates, AbsId(c[1] - 1, c[2]), i))).name
                     = Some(name)
                /\ ChildCanon(crates, AbsId(c[1] - 1, c[2]), j) # None
                /\ ItemIn(crates, unwrap(ChildCanon(crates, AbsId(c[1] - 1, c[2]), j))).name
                     = None
                /\ SuppliedBy(crates, AbsId(c[1] - 1, c[2]), j, name, 1) # None
                /\ NamespaceOf(c)[name]
                     = unwrap(SuppliedBy(crates, AbsId(c[1] - 1, c[2]), j, name, 1))
                /\ NamespaceOf(c)[name] # unwrap(ChildCanon(crates, AbsId(c[1] - 1, c[2]), i))

\* ----------------------------------------------------------------- C29
\* the resolve-cache slot of the id x in the registry `reg`
Slot(reg, x) == vec_get(reg[x.crate_idx + 1].resolve_cache, x.item_id)

\* x is an `extern crate` item naming a package that is neither a standard
\* library nor registered
NamesUnloaded(x) ==
    /\ x.item_id \in DOMAIN KeyJson(x).index
    /\ KeyItem(x).inner.kind = "ExternCrate"
    /\ KeyItem(x).inner.name \notin StandardLibraryNames \cup {s_webpki}
    /\ KeyItem(x).inner.name \notin DOMAIN crate_lookup

\* C29: for every call resolve(x): when the slot of x in x's own crate is
\* filled the call returns the outcome the slot holds and leaves the registry
\* as it is; when it is empty, the call that returns an id or Ignored leaves
\* that outcome in the slot, and the call that fails leaves the slot empty,
\* so the next call on x computes again: for an `extern crate` item naming a
\* package that is not registered, every such call invokes the provider.
C29_CacheHoldsDefiniteOutcomes ==
    [][\A x \in KnownIds :
          (Called("resolve") /\ last'.arg[1] = x) =>
              /\ Slot(crates, x) # None =>
                    /\ last'.r = (IF unwrap(Slot(crates, x)).e = "Id"
                                  THEN Ok(unwrap(Slot(crates, x)).id) ELSE Ignore)
                    /\ crates' = crates /\ crate_lookup' = crate_lookup
                    /\ builds' = builds
              /\ last'.r.tag = "Ok" =>
                    Slot(crates', x) = Some(ResolveCacheEntry_Id(last'.r.val))
              /\ last'.r.tag = "Ignore" => Slot(crates', x) = Some(ResolveCacheEntry_Ignore)
              /\ last'.r.tag = "Fail" => Slot(crates', x) = None
              /\ (Slot(crates, x) = None /\ NamesUnloaded(x)) =>
                    builds' = Append(builds, KeyItem(x).inner.name)
      ]_vars

\* resolve failed on an `extern crate` item whose package the provider has
\* been asked for twice: the slot is empty and the package is not registered
C29_Witness ==
    /\ RootLoaded
    /\ last.op = "resolve"
    /\ last.r = Fail
    /\ \E x \in KnownIds :
          /\ last.arg[1] = x
          /\ NamesUnloaded(x)
          /\ Slot(crates, x) = None
          /\ Cardinality({i \in DOMAIN builds : builds[i] = KeyItem(x).inner.name}) = 2

\* ----------------------------------------------------------------- C30
\* generics made of type parameters bounded by traits named without arguments
SimpleGenerics(generics) ==
    /\ generics.where_predicates = <<>>
    /\ \A p \in Range(generics.params) :
          /\ p.t = "Type"
          /\ p.default = None
          /\ \A b \in Range(p.bounds) :
                b.t = "TraitBound" /\ b.trait_.args = None /\ b.generic_params = <<>>

\* the ids such generics reference: the traits bounding the parameters
BoundIds(generics) ==
    UNION {{b.trait_.id : b \in Range(p.bounds)} : p \in Range(generics.params)}

\* the ids the self type of an impl references: the path's own id and the ids
\* of the paths among its type arguments
ForIds(for_) ==
    IF for_.t # "ResolvedPath" THEN {}
    ELSE {for_.path.id}
         \cup (IF for_.path.args = None THEN {}
               ELSE {a.type_.path.id :
                       a \in {a \in Range(unwrap(for_.path.args).args) :
                                 a.t = "Type" /\ a.type_.t = "ResolvedPath"}})

\* the ids the header of the impl references: the implemented trait and the
\* ids of the self type
HeaderIds(inner) ==
    (IF inner.trait_ = None THEN {} ELSE {unwrap(inner.trait_).id}) \cup ForIds(inner.for_)

\* an item whose declaration references no id: a unit struct, a function
\* without parameters and return type, a trait without items and bounds
Quiet(item) ==
    \/ item.inner.kind = "Struct" /\ item.inner.skind.k = "Unit"
          /\ item.inner.generics = NoGenerics
    \/ item.inner.kind = "Function" /\ item.inner.sig = FunctionSignature(<<>>, None)
          /\ item.inner.generics = NoGenerics
    \/ item.inner.kind = "Trait" /\ item.inner.items = <<>> /\ item.inner.bounds = <<>>
          /\ item.inner.generics = NoGenerics

\* <<m, t>>: m is an impl listed by a public struct of the root module, t a
\* non-public item of the root module that the header of m references; the
\* generics and the member items of m do not reference t, and no other item
\* of the crate references anything
ImplHeaderCases ==
    {c \in RootIds \X RootIds :
        /\ DOMAIN RootJson.paths = {}
        /\ RootIndex[c[1]].inner.kind = "Impl"
        /\ SimpleGenerics(RootIndex[c[1]].inner.generics)
        /\ c[2] \in HeaderIds(RootIndex[c[1]].inner)
        /\ c[2] \notin Range(RootIndex[c[1]].inner.items)
                         \cup BoundIds(RootIndex[c[1]].inner.generics)
        /\ c[2] \in Range(RootModule.inner.items)
        /\ RootIndex[c[2]].visibility = "Default"
        /\ \E s \in Range(RootModule.inner.items) :
              /\ RootIndex[s].visibility = "Public"
              /\ RootIndex[s].inner.kind = "Struct"
              /\ c[1] \in Range(RootIndex[s].inner.impls)
        /\ \A k \in RootIds \ {c[1], crates[1].root_module} : Quiet(RootIndex[k])}

\* C30: link_visible on an Impl item emits the ids of the impl's member items
\* and the ids its generics reference, nothing else. In the finished run over
\* a crate where a non-public trait or type is referenced by the header of an
\* impl only (as the implemented trait or inside the self type), the impl, its
\* member items and the traits bounding its parameters are keys of visible and
\* that trait or type is not.
C30_ImplHeaderIsNotLinked ==
    RootLoaded =>
        /\ \A i \in DOMAIN crates :
               \A k \in DOMAIN crates[i].rustdoc_json.index :
                   (/\ crates[i].rustdoc_json.index[k].inner.kind = "Impl"
                    /\ SimpleGenerics(crates[i].rustdoc_json.index[k].inner.generics)) =>
                       /\ ~link_visible(crates[i].rustdoc_json.index[k]).panic
                       /\ Range(link_visible(crates[i].rustdoc_json.index[k]).ids)
                            = Range(crates[i].rustdoc_json.index[k].inner.items)
                              \cup BoundIds(crates[i].rustdoc_json.index[k].inner.generics)
        /\ pc = "done" =>
               \A c \in ImplHeaderCases :
                   /\ RootId(c[1]) \in DOMAIN visible
                   /\ \A k \in Range(RootIndex[c[1]].inner.items)
                                \cup BoundIds(RootIndex[c[1]].inner.generics) :
                          RootId(k) \in DOMAIN visible
                   /\ RootId(c[2]) \notin DOMAIN visible

\* the finished run over a crate whose impl names a non-public trait and, in
\* its self type, a non-public struct, and has a member and a bounded parameter
C30_Witness ==
    /\ pc = "done"
    /\ \E m \in RootIds :
          /\ \E t \in RootIds :
                /\ <<m, t>> \in ImplHeaderCases
                /\ RootIndex[m].inner.trait_ # None
                /\ t = unwrap(RootIndex[m].inner.trait_).id
          /\ \E t \in RootIds :
                /\ <<m, t>> \in ImplHeaderCases
                /\ t \in ForIds(RootIndex[m].inner.for_)
          /\ RootIndex[m].inner.items # <<>>
          /\ BoundIds(RootIndex[m].inner.generics) # {}
          /\ RootId(m) \in DOMAIN visible

\* ----------------------------------------------------------------- C31
UnsupportedKinds == {"TraitAlias", "ExternType"}

\* C31: the iteration of the second traversal that dequeues a trait alias or
\* an extern type ends the process: nothing is inserted, nothing is printed
\* and no later step exists. The report over a visible map that holds a trait
\* alias or an extern type outside importable ends the process as well, the
\* header line printed and no item line. So no finished run has a trait alias
\* or an extern type among the keys of visible.
C31_UnsupportedKindsAreFatal ==
    [][/\ (/\ pc = "bfs" /\ bfs_link = "visible" /\ queue # <<>>
           /\ KeyItem(Head(queue)).inner.kind \in UnsupportedKinds) =>
              /\ pc' = "panicked"
              /\ hash' = hash /\ stdout' = <<>> /\ visible' = <<>>
       /\ (/\ pc = "report"
           /\ \E c \in DOMAIN visible \ DOMAIN importable :
                  KeyItem(c).inner.kind \in UnsupportedKinds) =>
              /\ pc' = "panicked"
              /\ stdout' = <<s_header>>
       /\ pc \in {"panicked", "failed"} => pc' = pc
       /\ pc' = "done" =>
              \A c \in DOMAIN visible' : KeyItem(c).inner.kind \notin UnsupportedKinds
      ]_vars

\* the second traversal has dequeued an importable trait alias and the process
\* has ended without output
C31_Witness ==
    /\ pc = "panicked"
    /\ bfs_link = "visible"
    /\ queue # <<>>
    /\ KeyItem(Head(queue)).inner.kind = "TraitAlias"
    /\ Head(queue) \in DOMAIN importable
    /\ stdout = <<>>

\* ----------------------------------------------------------------- C32
\* the child k of a crate is one of the kinds of child C32 speaks of: an item
\* with a name, an inherent impl, a Use, an `extern crate` item, or an id
\* known through a path summary with at least one segment
LabelCase(json, k) ==
    IF k \in DOMAIN json.index
    THEN \/ json.index[k].name # None
         \/ json.index[k].inner.kind \in {"Use", "ExternCrate"}
         \/ json.index[k].inner.kind = "Impl" /\ json.index[k].inner.trait_ = None
    ELSE k \in DOMAIN json.paths /\ json.paths[k].path # <<>>

\* the segment such a child adds to the label of its parent, if any
LabelSegment(json, k) ==
    IF k \notin DOMAIN json.index
    THEN Some(json.paths[k].path[Len(json.paths[k].path)])
    ELSE IF json.index[k].name # None THEN json.index[k].name
    ELSE IF json.index[k].inner.kind = "ExternCrate"
    THEN (IF json.index[k].inner.rename # None THEN json.index[k].inner.rename
          ELSE Some(json.index[k].inner.name))
    ELSE IF json.index[k].inner.kind = "Use" /\ ~json.index[k].inner.is_glob
    THEN Some(json.index[k].inner.name)
    ELSE None

\* the label of the parent with the segment appended
Labelled(parent, segment) ==
    IF segment = None THEN parent ELSE parent \o s_colons \o unwrap(segment)

\* C32: in every iteration of either traversal a key keeps the label it has,
\* and a key the iteration adds, led to by a child that has a name, is an
\* inherent impl, a Use, an `extern crate` item or an id known through a path
\* summary, is labelled from the label P of the dequeued parent and that
\* child, as it is before canonicalization: P::name for a child with a name, P
\* for an inherent impl and a glob Use, P::rename or P::name for an `extern
\* crate` item, P::name-of-the-use for another Use, P::last-segment for an id
\* absent from the index. The second traversal starts from the labels of the
\* first and returns its map with them.
C32_LabelFromParentAndChild ==
    [][/\ (pc = "bfs" /\ pc' = "bfs" /\ queue # <<>>) =>
              /\ \A c \in DOMAIN hash : c \in DOMAIN hash' /\ hash'[c] = hash[c]
              /\ \A c \in DOMAIN hash' \ DOMAIN hash :
                     LabelCase(KeyJson(Head(queue)),
                               DiscoveringChild(crates', Head(queue), c)) =>
                         hash'[c] = Labelled(hash[Head(queue)],
                                        LabelSegment(KeyJson(Head(queue)),
                                            DiscoveringChild(crates', Head(queue), c)))
       /\ (pc = "bfs" /\ bfs_link = "importable" /\ bfs_link' = "visible") =>
              hash' = importable'
       /\ (pc = "bfs" /\ pc' = "report") =>
              \A c \in DOMAIN importable : visible'[c] = importable[c]
      ]_vars

\* a finished run that labelled the root module of dep, reached through
\* `extern crate dep as Al`, root::Al, and an item of dep below it
C32_Witness ==
    /\ pc = "done"
    /\ \E c, d \in DOMAIN importable :
          /\ c.crate_idx # 0
          /\ importable[c] = RootLabel \o s_colons \o s_Al
          /\ d.crate_idx = c.crate_idx
          /\ KeyItem(d).name # None
          /\ importable[d] = importable[c] \o s_colons \o unwrap(KeyItem(d).name)
          /\ visible[d] = importable[d]

\* ----------------------------------------------------------------- C33
\* the name resolve_crate looks up and registers
RegistryName(name) == IF name = s_webpki THEN s_rustls_webpki ELSE name

\* the spellings of a package name the Doc-JSON provider is asked for
Spellings(name) == {replace(name, ch_underscore, ch_hyphen),
                    replace(name, ch_hyphen, ch_underscore)}

ProviderFails(name) == Spellings(name) \cap DOMAIN world.packages = {}

\* the provider has a JSON for the package and no module of it is the crate root
NoCrateRoot(name) ==
    \E p \in Spellings(name) \cap DOMAIN world.packages :
       \A k \in DOMAIN world.packages[p].index :
          LET inner == world.packages[p].index[k].inner IN
          ~(inner.kind = "Module" /\ inner.is_crate)

NotYetLoaded(name) ==
    /\ RegistryName(name) \notin DOMAIN crate_lookup
    /\ RegistryName(name) \notin StandardLibraryNames

\* C33: when resolve_crate is called for a package that is not in the registry
\* and the Doc-JSON provider fails or the JSON it produces has no module marked
\* as crate root, the call returns a failure and the registry is as it was: no
\* entry is appended to `crates`, no name is added to `crate_lookup`, and the
\* indices of the loaded packages are the same.
C33_FailedLoadLeavesRegistry ==
    [][(/\ Called("resolve_crate")
        /\ NotYetLoaded(last'.arg[1])
        /\ \/ ProviderFails(RegistryName(last'.arg[1]))
           \/ NoCrateRoot(RegistryName(last'.arg[1])))
       => /\ last'.r = Fail
          /\ crates' = crates
          /\ crate_lookup' = crate_lookup]_vars

\* both failures have happened with a package loaded before: the last call
\* named a package without a crate root, or one the provider does not have
C33_Witness ==
    /\ last.op = "resolve_crate"
    /\ last.r = Fail
    /\ NotYetLoaded(last.arg[1])
    /\ NoCrateRoot(last.arg[1])
    /\ Len(crates) = 1
    /\ DOMAIN crate_lookup = {s_root}
    /\ \E i \in DOMAIN builds : ProviderFails(builds[i])

\* ----------------------------------------------------------------- C34
NoDuplicates(q) == \A i, j \in DOMAIN q : q[i] = q[j] => i = j

\* the ids of the doc indices the provider can produce
WorldIds ==
    UNION {{<<p, k>> : k \in DOMAIN world.packages[p].index
                              \cup DOMAIN world.packages[p].paths}
           : p \in DOMAIN world.packages}

\* the ids not yet in the map, and the ids still waiting in the queue
BfsMeasure(map, q) == Cardinality(WorldIds) - Cardinality(DOMAIN map) + Len(q)

\* the keys of the map that have been dequeued
Dequeued(map, q) == DOMAIN map \ Range(q)

\* a traversal is between two iterations of its loop
InBfs == pc = "bfs"

\* C34: a traversal starts with each seed key in the queue once; an iteration
\* removes the head, appends only ids it inserts into the map in the same
\* iteration, each once, and never an id that is in the map already, so no id is
\* in the queue twice and no dequeued id comes back; every iteration that
\* returns to the loop lowers the number of ids not in the map plus the length
\* of the queue, which is never negative, so the loop ends after finitely
\* many iterations, and a traversal returns its map only with the queue empty.
C34_EnqueuedAtMostOnce ==
    [][/\ (pc = "start" /\ pc' = "bfs")
           => (Len(queue') = 1 /\ Range(queue') = DOMAIN hash')
       /\ (bfs_link = "importable" /\ bfs_link' = "visible")
           => /\ NoDuplicates(queue')
              /\ Range(queue') = DOMAIN hash'
              /\ hash' = importable'
       /\ (InBfs /\ queue # <<>> /\ pc' = "bfs")
           => /\ Len(queue') >= Len(queue) - 1
              /\ SubSeq(queue', 1, Len(queue) - 1) = Tail(queue)
              /\ \A i \in Len(queue)..Len(queue') :
                    queue'[i] \in DOMAIN hash' \ DOMAIN hash
              /\ DOMAIN hash \subseteq DOMAIN hash'
              /\ Dequeued(hash, queue) \cup {Head(queue)} \subseteq Dequeued(hash', queue')
              /\ BfsMeasure(hash', queue') < BfsMeasure(hash, queue)
       /\ pc' = "bfs"
           => /\ NoDuplicates(queue')
              /\ Range(queue') \subseteq DOMAIN hash'
              /\ BfsMeasure(hash', queue') >= 0
       /\ (InBfs /\ pc' = "report") => queue = <<>>
       /\ (InBfs /\ bfs_link' # bfs_link) => queue = <<>>]_vars

\* the run ended with its report, and in the second traversal an id that
\* was not a seed was reached from two different keys
C34_Witness ==
    /\ pc = "done"
    /\ \E c \in DOMAIN visible \ DOMAIN importable, p1, p2 \in DOMAIN visible :
          /\ p1 # p2
          /\ p1.item_id \in DOMAIN KeyJson(p1).index
          /\ p2.item_id \in DOMAIN KeyJson(p2).index
          /\ \E i \in DOMAIN VisibleChildren(p1) : ChildResolvesTo(crates, p1, i, c)
          /\ \E j \in DOMAIN VisibleChildren(p2) : ChildResolvesTo(crates, p2, j, c)

\* ----------------------------------------------------------------- C35
\* the item kinds of the two `unreachable!("not canonical")` arms of link_visible
NotCanonicalKind(item) ==
    \/ item.inner.kind = "ExternCrate"
    \/ (item.inner.kind = "Use" /\ ~item.inner.is_glob)

\* the second traversal is about to hand the head of its queue to link_visible
VisibleLinks(c) ==
    /\ pc = "bfs"
    /\ bfs_link = "visible"
    /\ queue # <<>>
    /\ c = Head(queue)
    /\ c.item_id \in DOMAIN KeyJson(c).index

\* C35: in the second traversal link_visible is never called on an item of
\* kind ExternCrate or on a non-glob Use item, whatever the doc indices and
\* whatever map the first traversal produced.
C35_UnreachableArmsNotReached ==
    \A c \in Range(queue) : VisibleLinks(c) => ~NotCanonicalKind(KeyItem(c))

\* the same in a build with debug assertions, where canon_id checks the kind
C35_UnreachableArmsNotReachedInDebug ==
    world.debug_assertions => C35_UnreachableArmsNotReached

\* ----------------------------------------------------------------- C36
\* the call `other` returns r and leaves the registry `after`
SameOutcome(other, after, r) == other.r = r /\ other.g = after

\* a result that resolve stores in the resolve cache
Definite(r) == r.tag \in {"Ok", "Ignore"}

\* C36: whenever resolve(id, filter_public) returns, resolve(id, ~filter_public)
\* called in the same registry state returns the same canonical id, Ignore or
\* failure and leaves the same registry; and when the result was cached, a
\* call with the other flag value made afterwards returns that same result.
C36_ResolveIgnoresFilterPublic ==
    [][Called("resolve")
       => /\ SameOutcome(resolve(Gnow, last'.arg[1], ~last'.arg[2], MaxDepth),
                         G(crate_lookup', crates', builds'), last'.r)
          /\ Definite(last'.r)
              => SameOutcome(resolve(G(crate_lookup', crates', builds'),
                                     last'.arg[1], ~last'.arg[2], MaxDepth),
                             G(crate_lookup', crates', builds'), last'.r)]_vars

\* resolve was called with filter_public = true on an item that is not
\* Public, returned its canonical id and cached it
C36_Witness ==
    /\ last.op = "resolve"
    /\ last.arg[2] = TRUE
    /\ last.arg[1].item_id \in DOMAIN KeyJson(last.arg[1]).index
    /\ KeyItem(last.arg[1]).visibility # "Public"
    /\ last.r.tag = "Ok"
    /\ resolve_cached(Gnow, last.arg[1]) = Some(ResolveCacheEntry_Id(last.r.val))

=============================================================================
